---- MODULE Spec2Model ----
(***************************************************************************)
(* A model of the cco C compiler: the driver (main.rs, compiler/mod.rs),   *)
(* the lexer, the semantic passes, the TAC generator and codegen.          *)
(*                                                                         *)
(* The module holds several specifications over one set of variables.     *)
(* Each specification drives one part of the program; the variables of    *)
(* the parts it does not drive stay at their idle values.                  *)
(***************************************************************************)
EXTENDS Integers, Sequences, FiniteSets, TLC

VARIABLES
    \* ---- driver (main.rs, compiler/mod.rs, semantic/mod.rs) ----
    args,           \* the parsed command line: [stage, assembly, object]
    os,             \* std::env::consts::OS
    dpc,            \* the driver's position in main / compile / analyze
    files,          \* the files that exist among {"i", "s", "o", "bin"}
    ran,            \* the passes and external tools run so far, in order
    analyzeResult,  \* what semantic::analyze returned
    exit,           \* "running", "ok" (main returned) or "panic"
    \* ---- lexer (compiler/lexer.rs) ----
    input,          \* the string given to tokenize, a sequence of characters
    rest,           \* tokenize: the local `rest`
    tokens,         \* tokenize: the local `tokens`
    lexResult,      \* what tokenize returned: Ok(tokens), Err(msg), or a panic
    \* ---- codegen (compiler/codegen.rs) ----
    tacFn,          \* the TAC function definition given to codegen, and the
                    \* names the symbol table holds as Static
    asmIns,         \* the instructions of the asm::FunctionDefinition
    ip,             \* the next instruction of asmIns on the walk through it
    sp,             \* bytes subtracted from %rsp since the prologue
    \* ---- semantic analysis and TAC generation on an AST ----
    source,         \* the AST the parser produced
    ast,            \* the AST after the passes run so far
    ppc,            \* the pass to run next
    semaResult,     \* the Err (or panic) that ended the chain, if any
    symbolTable,    \* the SymbolTable TypeChecker::analyze returned
    tacky,          \* the items of the tacky::Program
    asmProgram,     \* the items of the asm::Program
    asmText,        \* the assembler text, item by item
    run,            \* 1 on the first run of the compiler on source, then 2
    firstText,      \* the assembler text the first run produced
    \* ---- TypeChecker::handle_program, declaration by declaration ----
    tcProgram,      \* the declarations of the program given to handle_program
    tcHandled,      \* handle_program: the local `declarations`
    tcSymbols,      \* self.symbols
    tcResult,       \* "running", then what handle_program returned
    \* ---- parse_expression (compiler/parser.rs) ----
    parseInput,     \* the tokens given to parse_expression
    parseTokens,    \* the deque `tokens`
    parseResult,    \* "running", then what parse_expression returned
    \* ---- a run of the TAC of main, instruction by instruction ----
    execPc,         \* the index of the next instruction, 0 before the run
    execEnv,        \* the values of the TAC variables written so far
    execTrace,      \* the calls made so far, with the values they returned
    execResult,     \* "idle", "running", then the value main returned
    \* ---- a call at machine level: caller, call, entry code of the callee ----
    callCase,       \* the caller and the callee as TAC function definitions
    mCode,          \* the instructions the processor is running through
    mPc,            \* the index of the next instruction of mCode
    mRegs,          \* the registers, among them SP and BP
    mMem            \* the memory, by address

driverVars == <<args, os, dpc, files, ran, analyzeResult, exit>>

lexVars == <<input, rest, tokens, lexResult>>

cgVars == <<tacFn, asmIns, ip, sp>>

semaVars ==
    <<source, ast, ppc, semaResult, symbolTable, tacky, asmProgram, asmText, run,
      firstText>>

\* What the back end writes, and what a run keeps of the run before it
backVars == <<tacky, asmProgram, asmText>>

runVars == <<source, run, firstText>>

tcVars == <<tcProgram, tcHandled, tcSymbols, tcResult>>

parseVars == <<parseInput, parseTokens, parseResult>>

execVars == <<execPc, execEnv, execTrace, execResult>>

machVars == <<callCase, mCode, mPc, mRegs, mMem>>

runtimeVars == <<execVars, machVars>>

vars == <<driverVars, lexVars, cgVars, semaVars, tcVars, parseVars, runtimeVars>>

\* What the actions of one part leave unchanged: the variables of the others.
notDriver == <<lexVars, cgVars, semaVars, tcVars, parseVars, runtimeVars>>

notLex == <<driverVars, cgVars, semaVars, tcVars, parseVars, runtimeVars>>

notCg == <<driverVars, lexVars, semaVars, tcVars, parseVars, runtimeVars>>

notSema == <<driverVars, lexVars, cgVars, tcVars, parseVars, runtimeVars>>

notTc == <<driverVars, lexVars, cgVars, semaVars, parseVars, runtimeVars>>

notParse == <<driverVars, lexVars, cgVars, semaVars, tcVars, runtimeVars>>

(***************************************************************************)
(* Driver                                                                  *)
(***************************************************************************)

\* compiler/mod.rs: enum CompilerStage
CompilerStage == {"Lex", "Parse", "Validate", "Tacky", "Codegen", "Full"}

\* main.rs: the stage flags conflict with -S and -c; -S and -c may both be given.
Args ==
    { a \in [stage : CompilerStage, assembly : BOOLEAN, object : BOOLEAN] :
        a.stage # "Full" => (~a.assembly /\ ~a.object) }

\* semantic/mod.rs: the and_then chain of analyze, in its order.
AnalyzePassesSwapped ==
    <<"IdentifierResolver", "LoopSwitchLabeler", "LabelResolver",
      "SwitchCaseCollector", "TypeChecker">>

AnalyzePasses ==
    <<"IdentifierResolver", "LabelResolver", "LoopSwitchLabeler",
      "SwitchCaseCollector", "TypeChecker">>

\* The passes of compile in the order the function calls them.
CompilePasses ==
    <<"tokenize", "parse">> \o AnalyzePasses \o <<"tackygen", "codegen", "emit">>

\* What a pass can do on some input: return Ok, return Err, or abort the
\* process (unwrap in the lexer, todo!() in label resolution and tackygen).
PassOutcomes(p) ==
    CASE p = "tokenize"      -> {"ok", "err", "panic"}
      [] p = "parse"         -> {"ok", "err"}
      [] p = "LabelResolver" -> {"ok", "err", "panic"}
      [] p = "tackygen"      -> {"ok", "panic"}
      [] p \in {"codegen", "emit"} -> {"ok"}
      [] OTHER               -> {"ok", "err"}

\* compile returns right after the pass that ends the requested stage.
LastPassOfStage(stage) ==
    CASE stage = "Lex"      -> "tokenize"
      [] stage = "Parse"    -> "parse"
      [] stage = "Validate" -> "TypeChecker"
      [] stage = "Tacky"    -> "tackygen"
      [] stage = "Codegen"  -> "codegen"
      [] OTHER              -> "none"

StageReturnsAfterNoCodegen(stage, p) ==
    stage # "Codegen" /\ LastPassOfStage(stage) = p

StageReturnsAfter(stage, p) == LastPassOfStage(stage) = p

\* main.rs:101: the early return that skips the assembler and the linker.
MainReturnsAfterCompile(a) == a.assembly \/ a.stage # "Full"

IndexOf(seq, x) == CHOOSE i \in 1..Len(seq) : seq[i] = x

DriverStart ==
    /\ args \in Args
    /\ os \in {"macos", "other"}
    /\ dpc = "preprocess"
    /\ files = {}
    /\ ran = <<>>
    /\ analyzeResult = [kind |-> "none", pass |-> "none"]
    /\ exit = "running"

Panic ==
    /\ dpc' = "exit"
    /\ exit' = "panic"

\* driver::preprocess: gcc -E -P input -o output; a non-zero status panics.
preprocess ==
    /\ dpc = "preprocess"
    /\ \E status \in {"ok", "fail"} :
         /\ ran' = Append(ran, [pass |-> "preprocess", outcome |-> status])
         /\ IF status = "ok"
            THEN /\ files' = files \cup {"i"}
                 /\ dpc' = "compile"
                 /\ exit' = exit
            ELSE /\ files' = files
                 /\ Panic
    /\ UNCHANGED <<args, os, analyzeResult, notDriver>>

\* compile, head: the OS check, then read_to_string of the .i file.
compile_enter ==
    /\ dpc = "compile"
    /\ IF os # "macos"
       THEN Panic
       ELSE /\ dpc' = "tokenize"
            /\ exit' = exit
    /\ UNCHANGED <<args, os, files, ran, analyzeResult, notDriver>>

\* After pass p returned Ok inside compile: return from compile when the
\* stage ends here, else go on with the next pass.
AfterPass(p) ==
    IF StageReturnsAfter(args.stage, p)
    THEN "remove_i"
    ELSE CompilePasses[IndexOf(CompilePasses, p) + 1]

\* compile: tokenize, parse, tackygen, codegen: one call each, with
\* .expect() on a Result (a panic on Err) and the stage's early return.
compile_pass ==
    /\ dpc \in {"tokenize", "parse", "tackygen", "codegen"}
    /\ \E r \in PassOutcomes(dpc) :
         /\ ran' = Append(ran, [pass |-> dpc, outcome |-> r])
         /\ IF r = "ok"
            THEN /\ dpc' = AfterPass(dpc)
                 /\ exit' = exit
            ELSE Panic
    /\ UNCHANGED <<args, os, files, analyzeResult, notDriver>>

\* semantic::analyze: one link of the and_then chain. An Err ends the chain
\* and is the chain's result; compile's expect() then panics.
analyze_pass ==
    /\ dpc \in {AnalyzePasses[i] : i \in 1..Len(AnalyzePasses)}
    /\ \E r \in PassOutcomes(dpc) :
         /\ ran' = Append(ran, [pass |-> dpc, outcome |-> r])
         /\ IF r = "ok"
            THEN LET i == IndexOf(AnalyzePasses, dpc) IN
                 IF i < Len(AnalyzePasses)
                 THEN /\ dpc' = AnalyzePasses[i + 1]
                      /\ analyzeResult' = analyzeResult
                      /\ exit' = exit
                 ELSE /\ analyzeResult' = [kind |-> "ok", pass |-> "none"]
                      /\ dpc' = IF StageReturnsAfter(args.stage, dpc)
                                THEN "remove_i" ELSE "tackygen"
                      /\ exit' = exit
            ELSE /\ analyzeResult' = IF r = "err" THEN [kind |-> "err", pass |-> dpc]
                                                  ELSE analyzeResult
                 /\ Panic
    /\ UNCHANGED <<args, os, files, notDriver>>

\* compile, tail: emitter::emit and std::fs::write of the .s file.
compile_emit ==
    /\ dpc = "emit"
    /\ ran' = Append(ran, [pass |-> "emit", outcome |-> "ok"])
    /\ files' = files \cup {"s"}
    /\ dpc' = "remove_i"
    /\ UNCHANGED <<args, os, analyzeResult, exit, notDriver>>

\* main.rs:99-103: remove the .i file, then return or go on to the assembler.
remove_preprocessed ==
    /\ dpc = "remove_i"
    /\ files' = files \ {"i"}
    /\ IF MainReturnsAfterCompile(args)
       THEN /\ dpc' = "exit"
            /\ exit' = "ok"
       ELSE /\ dpc' = "assemble"
            /\ exit' = exit
    /\ UNCHANGED <<args, os, ran, analyzeResult, notDriver>>

\* main.rs:105-109: driver::assemble (-c) or driver::assemble_and_link.
assemble ==
    /\ dpc = "assemble"
    /\ \E status \in {"ok", "fail"} :
         /\ ran' = Append(ran, [pass |-> IF args.object THEN "assemble"
                                                        ELSE "assemble_and_link",
                                outcome |-> status])
         /\ IF status = "ok"
            THEN /\ files' = files \cup {IF args.object THEN "o" ELSE "bin"}
                 /\ dpc' = "remove_s"
                 /\ exit' = exit
            ELSE /\ files' = files
                 /\ Panic
    /\ UNCHANGED <<args, os, analyzeResult, notDriver>>

\* main.rs:111: remove the .s file; main returns.
remove_assembly ==
    /\ dpc = "remove_s"
    /\ files' = files \ {"s"}
    /\ dpc' = "exit"
    /\ exit' = "ok"
    /\ UNCHANGED <<args, os, ran, analyzeResult, notDriver>>

DriverNext ==
    \/ preprocess
    \/ compile_enter
    \/ compile_pass
    \/ analyze_pass
    \/ compile_emit
    \/ remove_preprocessed
    \/ assemble
    \/ remove_assembly


(***************************************************************************)
(* Lexer                                                                   *)
(***************************************************************************)

LowerCase ==
    {"a", "b", "c", "d", "e", "f", "g", "h", "i", "j", "k", "l", "m", "n",
     "o", "p", "q", "r", "s", "t", "u", "v", "w", "x", "y", "z"}

UpperCase ==
    {"A", "B", "C", "D", "E", "F", "G", "H", "I", "J", "K", "L", "M", "N",
     "O", "P", "Q", "R", "S", "T", "U", "V", "W", "X", "Y", "Z"}

Digits == <<"0", "1", "2", "3", "4", "5", "6", "7", "8", "9">>

IsDigit(c) == \E i \in 1..Len(Digits) : Digits[i] = c

DigitValue(c) == (CHOOSE i \in 1..Len(Digits) : Digits[i] = c) - 1

\* [a-zA-Z_]
IsIdentStart(c) == c \in LowerCase \cup UpperCase \cup {"_"}

\* \w
IsWord(c) == IsIdentStart(c) \/ IsDigit(c)

\* char::is_whitespace, as far as the inputs go
IsWhitespace(c) == c \in {" ", "\n", "\t"}

\* \b after the first n characters of s
WordBoundaryAt(s, n) ==
    (n >= 1 /\ IsWord(s[n])) # (n < Len(s) /\ IsWord(s[n + 1]))

Max(S) == CHOOSE x \in S : \A y \in S : y <= x

\* The end of the match of ^[a-zA-Z_]\w*\b at the head of s, 0 for no match.
IdentifierMatch(s) ==
    LET ends == { k \in 1..Len(s) :
                    /\ IsIdentStart(s[1])
                    /\ \A i \in 2..k : IsWord(s[i])
                    /\ WordBoundaryAt(s, k) }
    IN IF ends = {} THEN 0 ELSE Max(ends)

\* The end of the match of ^\d+\b at the head of s, 0 for no match.
ConstantMatch(s) ==
    LET ends == { k \in 1..Len(s) :
                    /\ \A i \in 1..k : IsDigit(s[i])
                    /\ WordBoundaryAt(s, k) }
    IN IF ends = {} THEN 0 ELSE Max(ends)

Keywords ==
    {<<"v", "o", "i", "d">>, <<"i", "n", "t">>,
     <<"r", "e", "t", "u", "r", "n">>, <<"i", "f">>, <<"e", "l", "s", "e">>,
     <<"g", "o", "t", "o">>, <<"d", "o">>, <<"w", "h", "i", "l", "e">>,
     <<"f", "o", "r">>, <<"b", "r", "e", "a", "k">>,
     <<"c", "o", "n", "t", "i", "n", "u", "e">>,
     <<"s", "t", "a", "t", "i", "c">>, <<"e", "x", "t", "e", "r", "n">>}

\* The token of a matched word: a keyword token or Identifier(ms).
WordToken(ms) ==
    IF ms \in Keywords THEN [t |-> "Keyword", s |-> ms]
                       ELSE [t |-> "Identifier", s |-> ms]

\* i64::MAX, digit by digit (TLC's integers are 32 bits wide).
I64MaxDigits ==
    <<9, 2, 2, 3, 3, 7, 2, 0, 3, 6, 8, 5, 4, 7, 7, 5, 8, 0, 7>>

RECURSIVE StripZeros(_)
StripZeros(ds) ==
    IF Len(ds) > 1 /\ ds[1] = "0" THEN StripZeros(Tail(ds)) ELSE ds

\* ms.parse() returns Err (and unwrap panics) when the value does not fit.
ParseOverflows(ms) ==
    LET ds == StripZeros(ms) IN
    \/ Len(ds) > Len(I64MaxDigits)
    \/ /\ Len(ds) = Len(I64MaxDigits)
       /\ \E k \in 1..Len(ds) :
            /\ \A j \in 1..(k - 1) : DigitValue(ds[j]) = I64MaxDigits[j]
            /\ DigitValue(ds[k]) > I64MaxDigits[k]

\* lexer.rs:43-85, in the order of the array
Punctuators ==
    << <<"<", "<", "=">>, <<">", ">", "=">>, <<"<", "<">>, <<">", ">">>,
       <<"&", "&">>, <<"|", "|">>, <<"=", "=">>, <<"!", "=">>, <<"<", "=">>,
       <<">", "=">>, <<"+", "=">>, <<"-", "=">>, <<"*", "=">>, <<"/", "=">>,
       <<"%", "=">>, <<"&", "=">>, <<"|", "=">>, <<"^", "=">>, <<"-", "-">>,
       <<"+", "+">>, <<"(">>, <<")">>, <<"{">>, <<"}">>, <<";">>, <<"~">>,
       <<"-">>, <<"+">>, <<"*">>, <<"/">>, <<"%">>, <<"&">>, <<"|">>,
       <<"^">>, <<"!">>, <<"<">>, <<">">>, <<"=">>, <<"?">>, <<":">>,
       <<",">> >>

StartsWith(s, p) == Len(p) <= Len(s) /\ SubSeq(s, 1, Len(p)) = p

Drop(s, n) == SubSeq(s, n + 1, Len(s))

PunctuatorMatchLast(s) ==
    LET hits == { i \in 1..Len(Punctuators) : StartsWith(s, Punctuators[i]) }
    IN IF hits = {} THEN 0 ELSE CHOOSE i \in hits : \A j \in hits : i >= j

\* tokens.iter().find_map(strip_prefix): the first entry that is a prefix.
PunctuatorMatch(s) ==
    LET hits == { i \in 1..Len(Punctuators) : StartsWith(s, Punctuators[i]) }
    IN IF hits = {} THEN 0 ELSE CHOOSE i \in hits : \A j \in hits : i <= j

\* find_first_token: [kind |-> "Some", token, rest], [kind |-> "None"], or
\* [kind |-> "panic"] when unwrap() meets the Err of parse().
find_first_token(s) ==
    IF s = <<>> THEN [kind |-> "None"]
    ELSE IF IdentifierMatch(s) > 0
    THEN LET k == IdentifierMatch(s) IN
         [kind |-> "Some", token |-> WordToken(SubSeq(s, 1, k)),
          rest |-> Drop(s, k)]
    ELSE IF ConstantMatch(s) > 0
    THEN LET k == ConstantMatch(s) IN
         IF ParseOverflows(SubSeq(s, 1, k))
         THEN [kind |-> "panic"]
         ELSE [kind |-> "Some",
               token |-> [t |-> "Constant", s |-> StripZeros(SubSeq(s, 1, k))],
               rest |-> Drop(s, k)]
    ELSE IF PunctuatorMatch(s) > 0
    THEN LET p == Punctuators[PunctuatorMatch(s)] IN
         [kind |-> "Some", token |-> [t |-> "Punctuator", s |-> p],
          rest |-> Drop(s, Len(p))]
    ELSE [kind |-> "None"]

RECURSIVE trim_start(_)
trim_start(s) ==
    IF s # <<>> /\ IsWhitespace(s[1]) THEN trim_start(Tail(s)) ELSE s

\* The pieces the inputs are made of.
LongDigits == [i \in 1..20 |-> "9"]

SwitchWord == <<"s", "w", "i", "t", "c", "h">>

Chunks ==
    {<<"x">>, <<"i", "n", "t">>, SwitchWord, <<"4", "2">>, <<"0">>, LongDigits,
     <<" ">>, <<"@">>, <<"-">>, <<"<">>, <<"=">>, <<";">>}

MaxChunks == 3

RECURSIVE Flatten(_)
Flatten(ss) == IF ss = <<>> THEN <<>> ELSE Head(ss) \o Flatten(Tail(ss))

ChunkSeqs == UNION { [1..n -> Chunks] : n \in 0..MaxChunks }

\* The punctuators of the array, and every punctuator followed by another
PunctuatorSet == { Punctuators[i] : i \in DOMAIN Punctuators }

PunctuatorPairs == { p \o q : p, q \in PunctuatorSet }

Inputs == { Flatten(cs) : cs \in ChunkSeqs } \cup PunctuatorPairs

ErrPrefix == <<"C", "o", "u", "l", "d", " ", "n", "o", "t", " ", "t", "o",
               "k", "e", "n", "i", "z", "e", ":", " ">>

\* tokenize, up to the loop
LexStart ==
    /\ input \in Inputs
    /\ rest = trim_start(input)
    /\ tokens = <<>>
    /\ lexResult = [kind |-> "running"]

\* tokenize: one iteration of the while loop
tokenize_step ==
    /\ lexResult.kind = "running"
    /\ rest # <<>>
    /\ LET f == find_first_token(rest) IN
       CASE f.kind = "Some" ->
              /\ tokens' = Append(tokens, f.token)
              /\ rest' = trim_start(f.rest)
              /\ lexResult' = lexResult
         [] f.kind = "None" ->
              /\ lexResult' = [kind |-> "Err", msg |-> ErrPrefix \o rest]
              /\ UNCHANGED <<tokens, rest>>
         [] OTHER ->
              /\ lexResult' = [kind |-> "panic"]
              /\ UNCHANGED <<tokens, rest>>
    /\ UNCHANGED <<input, notLex>>

\* tokenize: the loop ended, Ok(tokens)
tokenize_return ==
    /\ lexResult.kind = "running"
    /\ rest = <<>>
    /\ lexResult' = [kind |-> "Ok", tokens |-> tokens]
    /\ UNCHANGED <<input, rest, tokens, notLex>>


(***************************************************************************)
(* Codegen                                                                 *)
(*                                                                         *)
(* A TAC value is [k |-> "Constant", v |-> n] or [k |-> "Variable",        *)
(* v |-> name]; an operand is [k |-> "Imm" | "Reg" | "Pseudo" | "Stack" |  *)
(* "Data", v |-> ...]; an instruction is a record whose field k names the  *)
(* variant.  The operand of a tuple variant (Idiv, Sal, Sar, Push) is the  *)
(* field o.                                                                *)
(***************************************************************************)

Operand(k, v) == [k |-> k, v |-> v]

Mov(src, dst) == [k |-> "Mov", src |-> src, dst |-> dst]

get_register_for_argument(i) ==
    CASE i = 0 -> "DI" [] i = 1 -> "SI" [] i = 2 -> "DX"
      [] i = 3 -> "CX" [] i = 4 -> "R8" [] i = 5 -> "R9"
      [] OTHER -> "None"

handle_variable(name) == Operand("Pseudo", name)

handle_value(value) ==
    IF value.k = "Constant" THEN Operand("Imm", value.v)
                            ELSE handle_variable(value.v)

Min(a, b) == IF a < b THEN a ELSE b

Reverse(s) == [i \in 1..Len(s) |-> s[Len(s) + 1 - i]]

\* The padding handle_instructions puts before the pushes of a call.
StackPaddingNone(stack_args) == 0

StackPadding(stack_args) == IF Len(stack_args) % 2 = 0 THEN 0 ELSE 8

\* handle_instructions, the FunctionCall arm
handle_function_call(t) ==
    LET n == Min(6, Len(t.args))
        register_args == SubSeq(t.args, 1, n)
        stack_args == SubSeq(t.args, n + 1, Len(t.args))
        stack_padding == StackPadding(stack_args)
        push(arg) ==
            LET val == handle_value(arg) IN
            IF val.k \in {"Imm", "Reg"}
            THEN <<[k |-> "Push", o |-> val]>>
            ELSE <<Mov(val, Operand("Reg", "AX")),
                   [k |-> "Push", o |-> Operand("Reg", "AX")]>>
        rev == Reverse(stack_args)
        bytes_to_deallocate == 8 * Len(stack_args) + stack_padding
    IN  (IF stack_padding # 0
         THEN <<[k |-> "AllocateStack", n |-> stack_padding]>> ELSE <<>>)
        \o [i \in 1..n |->
              Mov(handle_value(register_args[i]),
                  Operand("Reg", get_register_for_argument(i - 1)))]
        \o Flatten([i \in 1..Len(rev) |-> push(rev[i])])
        \o <<[k |-> "Call", f |-> t.function]>>
        \o (IF bytes_to_deallocate # 0
            THEN <<[k |-> "DeallocateStack", n |-> bytes_to_deallocate]>>
            ELSE <<>>)
        \o <<Mov(Operand("Reg", "AX"), handle_variable(t.dst))>>

\* handle_relational_binary_operator
ConditionCode(op) ==
    CASE op = "Equal" -> "E" [] op = "NotEqual" -> "NE"
      [] op = "LessThan" -> "L" [] op = "LessOrEqual" -> "LE"
      [] op = "GreaterThan" -> "G" [] op = "GreaterOrEqual" -> "GE"

\* handle_binary_operator
AsmBinaryOperator(op) ==
    CASE op = "Add" -> "Add" [] op = "Subtract" -> "Sub"
      [] op = "Multiply" -> "Mult" [] op = "BitwiseAnd" -> "And"
      [] op = "BitwiseOr" -> "Or" [] op = "BitwiseXor" -> "Xor"

\* handle_instructions, the body of the loop: the asm of one TAC instruction
handle_instruction(t) ==
    CASE t.k = "Return" ->
           <<Mov(handle_value(t.v), Operand("Reg", "AX")), [k |-> "Ret"]>>
      [] t.k = "Unary" /\ t.op \in {"Complement", "Negate"} ->
           <<Mov(handle_value(t.src), handle_variable(t.dst)),
             [k |-> "Unary",
              op |-> IF t.op = "Complement" THEN "Not" ELSE "Neg",
              dst |-> handle_variable(t.dst)]>>
      [] t.k = "Unary" /\ t.op = "Not" ->
           <<[k |-> "Cmp", src |-> Operand("Imm", 0), dst |-> handle_value(t.src)],
             Mov(Operand("Imm", 0), handle_variable(t.dst)),
             [k |-> "SetCC", cc |-> "E", dst |-> handle_variable(t.dst)]>>
      [] t.k = "Binary" /\ t.op \in {"Add", "Subtract", "Multiply",
                                     "BitwiseAnd", "BitwiseOr", "BitwiseXor"} ->
           <<Mov(handle_value(t.lhs), handle_variable(t.dst)),
             [k |-> "Binary", op |-> AsmBinaryOperator(t.op),
              src |-> handle_value(t.rhs), dst |-> handle_variable(t.dst)]>>
      [] t.k = "Binary" /\ t.op \in {"Divide", "Remainder"} ->
           <<Mov(handle_value(t.lhs), Operand("Reg", "AX")),
             [k |-> "Cdq"],
             [k |-> "Idiv", o |-> handle_value(t.rhs)],
             Mov(Operand("Reg", IF t.op = "Divide" THEN "AX" ELSE "DX"),
                 handle_variable(t.dst))>>
      [] t.k = "Binary" /\ t.op \in {"ShiftLeft", "ShiftRight"} ->
           <<Mov(handle_value(t.lhs), handle_variable(t.dst)),
             Mov(handle_value(t.rhs), Operand("Reg", "CX")),
             [k |-> IF t.op = "ShiftLeft" THEN "Sal" ELSE "Sar",
              o |-> handle_variable(t.dst)]>>
      [] t.k = "Binary" ->
           <<[k |-> "Cmp", src |-> handle_value(t.rhs), dst |-> handle_value(t.lhs)],
             Mov(Operand("Imm", 0), handle_variable(t.dst)),
             [k |-> "SetCC", cc |-> ConditionCode(t.op),
              dst |-> handle_variable(t.dst)]>>
      [] t.k = "Copy" ->
           <<Mov(handle_value(t.src), handle_variable(t.dst))>>
      [] t.k = "Jump" ->
           <<[k |-> "Jmp", target |-> t.target]>>
      [] t.k \in {"JumpIfZero", "JumpIfNotZero"} ->
           <<[k |-> "Cmp", src |-> Operand("Imm", 0),
              dst |-> handle_value(t.condition)],
             [k |-> "JmpCC", cc |-> IF t.k = "JumpIfZero" THEN "E" ELSE "NE",
              target |-> t.target]>>
      [] t.k = "Label" ->
           <<[k |-> "Label", label |-> t.label]>>
      [] t.k = "FunctionCall" ->
           handle_function_call(t)

handle_instructions(instructions) ==
    Flatten([i \in 1..Len(instructions) |-> handle_instruction(instructions[i])])

ReplaceStaticsBySlots(operand, map, statics) ==
    IF operand.k # "Pseudo" THEN [o |-> operand, map |-> map]
    ELSE IF operand.v \in DOMAIN map
    THEN [o |-> Operand("Stack", map[operand.v]), map |-> map]
    ELSE LET offset == -4 * (Cardinality(DOMAIN map) + 1) IN
         [o |-> Operand("Stack", offset),
          map |-> map @@ (operand.v :> offset)]

\* replace_pseudo_registers_in_operand: the operand and the map after it
replace_pseudo_registers_in_operand(operand, map, statics) ==
    IF operand.k # "Pseudo" THEN [o |-> operand, map |-> map]
    ELSE IF operand.v \in DOMAIN map
    THEN [o |-> Operand("Stack", map[operand.v]), map |-> map]
    ELSE IF operand.v \in statics
    THEN [o |-> Operand("Data", operand.v), map |-> map]
    ELSE LET offset == -4 * (Cardinality(DOMAIN map) + 1) IN
         [o |-> Operand("Stack", offset),
          map |-> map @@ (operand.v :> offset)]

\* replace_pseudo_registers, the body of the loop: one instruction
ReplaceInInstruction(ins, map, statics) ==
    CASE ins.k \in {"Mov", "Binary", "Cmp"} ->
           LET a == replace_pseudo_registers_in_operand(ins.src, map, statics)
               b == replace_pseudo_registers_in_operand(ins.dst, a.map, statics)
           IN [ins |-> [ins EXCEPT !.src = a.o, !.dst = b.o], map |-> b.map]
      [] ins.k \in {"Unary", "SetCC"} ->
           LET a == replace_pseudo_registers_in_operand(ins.dst, map, statics)
           IN [ins |-> [ins EXCEPT !.dst = a.o], map |-> a.map]
      [] ins.k \in {"Idiv", "Sal", "Sar", "Push"} ->
           LET a == replace_pseudo_registers_in_operand(ins.o, map, statics)
           IN [ins |-> [ins EXCEPT !.o = a.o], map |-> a.map]
      [] OTHER -> [ins |-> ins, map |-> map]

\* replace_pseudo_registers: the rewritten instructions and the stack size
RECURSIVE ReplaceFrom(_, _, _, _, _)
ReplaceFrom(instructions, i, done, map, statics) ==
    IF i > Len(instructions)
    THEN [instructions |-> done, stack_size |-> 4 * Cardinality(DOMAIN map)]
    ELSE LET r == ReplaceInInstruction(instructions[i], map, statics) IN
         ReplaceFrom(instructions, i + 1, Append(done, r.ins), r.map, statics)

replace_pseudo_registers(instructions, statics) ==
    ReplaceFrom(instructions, 1, <<>>, <<>>, statics)

IsStackSlot(o) == o.k = "Stack"

\* Stack(_) | Data(_) in the patterns of fix_up_instructions
IsMemory(o) == o.k \in {"Stack", "Data"}

\* fix_up_instructions, the body of the loop: the arms of the match in order
fix_up_instruction(ins) ==
    CASE ins.k = "Mov" /\ IsMemory(ins.src) /\ IsMemory(ins.dst) ->
           <<Mov(ins.src, Operand("Reg", "R10")),
             Mov(Operand("Reg", "R10"), ins.dst)>>
      [] ins.k = "Idiv" /\ ins.o.k = "Imm" ->
           <<Mov(ins.o, Operand("Reg", "R10")),
             [k |-> "Idiv", o |-> Operand("Reg", "R10")]>>
      [] ins.k = "Binary" /\ ins.op \in {"Add", "Sub", "And", "Or", "Xor"}
            /\ IsMemory(ins.src) /\ IsMemory(ins.dst) ->
           <<Mov(ins.src, Operand("Reg", "R10")),
             [ins EXCEPT !.src = Operand("Reg", "R10")]>>
      [] ins.k = "Binary" /\ ins.op = "Mult" /\ ins.dst.k = "Stack" ->
           <<Mov(ins.dst, Operand("Reg", "R11")),
             [ins EXCEPT !.dst = Operand("Reg", "R11")],
             Mov(Operand("Reg", "R11"), ins.dst)>>
      [] ins.k = "Cmp" /\ IsMemory(ins.src) /\ IsMemory(ins.dst) ->
           <<Mov(ins.src, Operand("Reg", "R10")),
             [ins EXCEPT !.src = Operand("Reg", "R10")]>>
      [] ins.k = "Cmp" /\ ins.dst.k = "Imm" ->
           <<Mov(ins.dst, Operand("Reg", "R11")),
             [ins EXCEPT !.dst = Operand("Reg", "R11")]>>
      [] OTHER -> <<ins>>

\* u64::next_multiple_of(16)
NextMultipleOf16(n) == ((n + 15) \div 16) * 16

FrameSize(stack_size) == NextMultipleOf16(stack_size)

fix_up_instructions(instructions, stack_size) ==
    <<[k |-> "AllocateStack", n |-> FrameSize(stack_size)]>>
    \o Flatten([i \in 1..Len(instructions) |-> fix_up_instruction(instructions[i])])

\* The loop with the stack parameters read from 8(%rbp) on, where the
\* return address is
CopyParametersFromReturnAddress(parameters) ==
    [i \in 1..Len(parameters) |->
       Mov(IF i <= 6
           THEN Operand("Reg", get_register_for_argument(i - 1))
           ELSE Operand("Stack", 8 + ((i - 1 - 6) * 8)),
           handle_variable(parameters[i]))]

\* handle_function_definition: the loop that copies the parameters from
\* their registers and stack slots
copy_parameters(parameters) ==
    [i \in 1..Len(parameters) |->
       Mov(IF i <= 6
           THEN Operand("Reg", get_register_for_argument(i - 1))
           ELSE Operand("Stack", 16 + ((i - 1 - 6) * 8)),
           handle_variable(parameters[i]))]

\* handle_function_definition: `instructions` before replace_pseudo_registers
selected_instructions(fd) ==
    copy_parameters(fd.parameters) \o handle_instructions(fd.instructions)

\* handle_function_definition: the instructions of the asm function
handle_function_definition(fd, statics) ==
    LET replaced == replace_pseudo_registers(selected_instructions(fd), statics)
    IN fix_up_instructions(replaced.instructions, replaced.stack_size)

\* ---- the TAC functions codegen is run on ----

MaxArgs == 8

MaxParams == 7

MaxTac == 2

\* Argument i of a call: a constant at the even places, a variable at the odd.
CallArgs(n) ==
    [i \in 1..n |-> IF i % 2 = 1 THEN [k |-> "Constant", v |-> i]
                    ELSE [k |-> "Variable", v |-> IF i % 4 = 0 THEN "g" ELSE "a"]]

TacVar(name) == [k |-> "Variable", v |-> name]

TacPool ==
    { [k |-> "FunctionCall", function |-> "f", args |-> CallArgs(n), dst |-> "t"] :
        n \in 0..MaxArgs }
    \cup
    { [k |-> "Binary", op |-> "Multiply", lhs |-> TacVar("a"), rhs |-> TacVar("b"),
       dst |-> "g"],
      [k |-> "Binary", op |-> "Add", lhs |-> TacVar("g"), rhs |-> TacVar("a"),
       dst |-> "c"],
      [k |-> "JumpIfZero", condition |-> [k |-> "Constant", v |-> 0],
       target |-> "L"],
      [k |-> "Return", v |-> TacVar("a")] }

ParamNames == <<"p1", "p2", "p3", "p4", "p5", "p6", "p7", "p8", "p9", "p10">>

TacFunctions ==
    { [parameters |-> SubSeq(ParamNames, 1, np), instructions |-> is,
       statics |-> st] :
        np \in 0..MaxParams,
        is \in UNION { [1..n -> TacPool] : n \in 0..MaxTac },
        st \in {{}, {"g"}} }

CgStart ==
    /\ tacFn \in TacFunctions
    /\ asmIns = <<>>
    /\ ip = 0
    /\ sp = 0

\* codegen::generate on the function: handle_function_definition
cg_generate ==
    /\ ip = 0
    /\ asmIns' = handle_function_definition(tacFn, tacFn.statics)
    /\ ip' = 1
    /\ UNCHANGED <<tacFn, sp, notCg>>

\* The effect on %rsp of one instruction of the generated function, taken in
\* the order of the list: subq $n / addq $n / pushq; call returns balanced.
StackEffect(ins) ==
    CASE ins.k = "AllocateStack"   -> ins.n
      [] ins.k = "DeallocateStack" -> 0 - ins.n
      [] ins.k = "Push"            -> 8
      [] OTHER                     -> 0

cg_walk ==
    /\ ip >= 1
    /\ ip <= Len(asmIns)
    /\ sp' = sp + StackEffect(asmIns[ip])
    /\ ip' = ip + 1
    /\ UNCHANGED <<tacFn, asmIns, notCg>>

\* ---- TAC functions for the pseudo-register and fix-up passes ----

MaxFixTac == 1

FixValues ==
    {[k |-> "Constant", v |-> 1], [k |-> "Variable", v |-> "a"],
     [k |-> "Variable", v |-> "g"]}

\* Instructions over a constant, the local a and g, which is a local or a
\* static variable, with g as destination
FixPool ==
    { [k |-> "Binary", op |-> op, lhs |-> l, rhs |-> r, dst |-> "g"] :
        op \in {"Add", "Subtract", "BitwiseAnd", "BitwiseOr", "BitwiseXor",
                "Multiply", "Divide", "LessThan"},
        l \in FixValues, r \in FixValues }
    \cup { [k |-> "Unary", op |-> op, src |-> v, dst |-> "g"] :
             op \in {"Negate", "Not"}, v \in FixValues }
    \cup { [k |-> "Copy", src |-> v, dst |-> "g"] : v \in FixValues }
    \cup { [k |-> j, condition |-> v, target |-> "L"] :
             j \in {"JumpIfZero", "JumpIfNotZero"}, v \in FixValues }
    \cup { [k |-> "Return", v |-> v] : v \in FixValues }

\* No parameter, or seven: the seventh comes from the stack
FixUpFunctions ==
    { [parameters |-> SubSeq(ParamNames, 1, np), instructions |-> is,
       statics |-> st] :
        np \in {0, 7},
        is \in UNION { [1..n -> FixPool] : n \in 0..MaxFixTac },
        st \in {{}, {"g"}} }

FixUpStart ==
    /\ tacFn \in FixUpFunctions
    /\ asmIns = <<>>
    /\ ip = 0
    /\ sp = 0

(***************************************************************************)
(* AST (compiler/ast.rs)                                                   *)
(*                                                                         *)
(* A node is a record whose field k names the variant.  An identifier is a *)
(* sequence of strings: <<"x">> is the source identifier x, and a name     *)
(* made by format!("{PREFIX}.{}.{}", counter, suffix) is the sequence of   *)
(* its dot-separated parts, <<PREFIX, "0", "x">>.  None is NoneNode for an *)
(* Option of a node and <<>> for an Option of a label.                     *)
(***************************************************************************)

NoneNode == [k |-> "None"]

TypeInt == [k |-> "Int"]

FunctionType(n) ==
    [k |-> "Function", return_type |-> TypeInt, parameters |-> [i \in 1..n |-> TypeInt]]

\* Expression::Constant { c, ty }: c is the number and w the variant of the
\* enum Constant that holds it
Constant(n) == [k |-> "Constant", c |-> n, w |-> "ConstantInt", ty |-> NoneNode]

ConstantLong(n) == [k |-> "Constant", c |-> n, w |-> "ConstantLong", ty |-> NoneNode]

Variable(x) == [k |-> "Variable", v |-> <<x>>, ty |-> NoneNode]

Unary(op, e) == [k |-> "Unary", op |-> op, expr |-> e, ty |-> NoneNode]

Binary(op, l, r) == [k |-> "Binary", op |-> op, lhs |-> l, rhs |-> r, ty |-> NoneNode]

Assignment(l, r) ==
    [k |-> "Assignment", op |-> "Assign", lhs |-> l, rhs |-> r, ty |-> NoneNode]

Conditional(c, t, e) ==
    [k |-> "Conditional", condition |-> c, then_expr |-> t, else_expr |-> e,
     ty |-> NoneNode]

FunctionCall(f, as) ==
    [k |-> "FunctionCall", function |-> <<f>>, arguments |-> as, ty |-> NoneNode]

VariableDeclaration(x, init, sc) ==
    [k |-> "VariableDeclaration", variable |-> <<x>>, initializer |-> init,
     ty |-> TypeInt, storage_class |-> sc]

FunctionDeclaration(f, ps, body, sc) ==
    [k |-> "FunctionDeclaration", function |-> <<f>>,
     parameters |-> [i \in 1..Len(ps) |-> <<ps[i]>>], body |-> body,
     ty |-> FunctionType(Len(ps)), storage_class |-> sc]

Block(items) == [k |-> "Block", items |-> items]

\* Result<_, String>: the first error of two steps taken in order
FirstErr(a, b) == IF a # "none" THEN a ELSE b

(***************************************************************************)
(* The passes below are written in one style.  A handler takes the node    *)
(* and a context ctx, a record of the state the pass threads through the   *)
(* traversal (its counters and maps) together with err, the first error    *)
(* met so far ("none" while there is none: the `?` of the source returns   *)
(* at the first error, here the error is carried to the end and nothing    *)
(* after it is kept), and n, the rewritten node.  It returns the context   *)
(* after the node.  A loop over a Vec is a recursion on the index whose    *)
(* context collects the rewritten elements in n.                           *)
(***************************************************************************)

Fail(ctx, msg) == [ctx EXCEPT !.err = FirstErr(@, msg)]

\* Ok(value) or Err(msg) out of the final context
PassResult(r) ==
    IF r.err = "none" THEN [kind |-> "ok", program |-> r.n]
    ELSE IF r.err = "panic" THEN [kind |-> "panic"]
    ELSE [kind |-> "err", msg |-> r.err]

\* node with field f replaced by the expression result e = [n, err]
ExprInto(ctx, node, f, e) ==
    [ctx EXCEPT !.n = [node EXCEPT ![f] = e.n], !.err = FirstErr(@, e.err)]

\* items.push(r?) / Box::new(r?) : the node of context r put into a parent
AppendNode(done, r) == [r EXCEPT !.n = Append(done, r.n)]

NodeInto(node, f, r) == [r EXCEPT !.n = [node EXCEPT ![f] = r.n]]

(***************************************************************************)
(* semantic/identifier_resolution.rs                                       *)
(*                                                                         *)
(* ctx = [n, map, counter, err].  A handler that takes `map: &IdentifierMap`*)
(* returns the map it was given; one that takes `&mut IdentifierMap`       *)
(* returns the map with its insertions.                                    *)
(***************************************************************************)

SEMANTIC_VAR_PREFIX == "SEMANTIC_VAR"

IdentifierMapEntry(name, linkage) ==
    [new_name |-> name, from_current_scope |-> TRUE, has_linkage |-> linkage]

CloneKeepsScope(map) == map

clone_rescoped(map) ==
    [x \in DOMAIN map |-> [map[x] EXCEPT !.from_current_scope = FALSE]]

\* HashMap::insert
Insert(map, key, value) == (key :> value) @@ map

FreshKeepsSource(counter, suffix) == suffix

fresh_variable(counter, suffix) ==
    <<SEMANTIC_VAR_PREFIX, ToString(counter)>> \o suffix

IncDec ==
    {"PrefixIncrement", "PrefixDecrement", "PostfixIncrement", "PostfixDecrement"}

\* The first Err among the results of the arguments, in order
FirstErrOf(rs) ==
    LET bad == {i \in 1..Len(rs) : rs[i].err # "none"} IN
    IF bad = {} THEN "none" ELSE rs[CHOOSE i \in bad : \A j \in bad : i <= j].err

IrVariableKept(expr, entry) == expr

\* Expression::Variable(Variable { identifier: entry.new_name.clone() })
ir_variable(expr, entry) == [expr EXCEPT !.v = entry.new_name]

RECURSIVE ir_handle_expression(_, _)
ir_handle_expression(expr, map) ==
    CASE expr.k = "Constant" -> [n |-> expr, err |-> "none"]
      [] expr.k = "Variable" ->
           IF expr.v \in DOMAIN map
           THEN [n |-> ir_variable(expr, map[expr.v]), err |-> "none"]
           ELSE [n |-> expr, err |-> "Variable not declared"]
      [] expr.k = "Unary" ->
           IF expr.op \in IncDec /\ expr.expr.k # "Variable"
           THEN [n |-> expr, err |-> "Invalid lvalue in increment/decrement"]
           ELSE LET e == ir_handle_expression(expr.expr, map) IN
                [n |-> [expr EXCEPT !.expr = e.n], err |-> e.err]
      [] expr.k \in {"Binary", "Assignment"} ->
           IF expr.k = "Assignment" /\ expr.lhs.k # "Variable"
           THEN [n |-> expr, err |-> "Invalid lvalue in assignment"]
           ELSE LET l == ir_handle_expression(expr.lhs, map)
                    r == ir_handle_expression(expr.rhs, map)
                IN [n |-> [expr EXCEPT !.lhs = l.n, !.rhs = r.n],
                    err |-> FirstErr(l.err, r.err)]
      [] expr.k = "Conditional" ->
           LET c == ir_handle_expression(expr.condition, map)
               t == ir_handle_expression(expr.then_expr, map)
               e == ir_handle_expression(expr.else_expr, map)
           IN [n |-> [expr EXCEPT !.condition = c.n, !.then_expr = t.n,
                                  !.else_expr = e.n],
               err |-> FirstErr(c.err, FirstErr(t.err, e.err))]
      [] expr.k = "FunctionCall" ->
           IF expr.function \notin DOMAIN map
           THEN [n |-> expr, err |-> "Function not declared"]
           ELSE LET as == [i \in 1..Len(expr.arguments) |->
                             ir_handle_expression(expr.arguments[i], map)]
                IN [n |-> [expr EXCEPT !.function = map[expr.function].new_name,
                                       !.arguments = [i \in 1..Len(as) |-> as[i].n]],
                    err |-> FirstErrOf(as)]

ir_handle_opt_expression(opt_expr, map) ==
    IF opt_expr.k = "None" THEN [n |-> opt_expr, err |-> "none"]
    ELSE ir_handle_expression(opt_expr, map)

ir_handle_block_level_variable_declaration(declaration, ctx) ==
    LET x == declaration.variable
        fresh == fresh_variable(ctx.counter, x)
        map2 == Insert(ctx.map, x, IdentifierMapEntry(fresh, FALSE))
    IN
    IF /\ x \in DOMAIN ctx.map
       /\ ctx.map[x].from_current_scope
       /\ ~(ctx.map[x].has_linkage /\ declaration.storage_class = "Extern")
    THEN Fail(ctx, "Conflicting block-level declarations of identifier")
    ELSE IF declaration.storage_class = "Extern"
    THEN [ctx EXCEPT !.n = declaration,
                     !.map = Insert(@, x, IdentifierMapEntry(x, TRUE))]
    ELSE ExprInto([ctx EXCEPT !.map = map2, !.counter = @ + 1],
                  [declaration EXCEPT !.variable = fresh], "initializer",
                  ir_handle_opt_expression(declaration.initializer, map2))

\* handle_parameter over the parameters from i on
RECURSIVE ir_handle_parameters(_, _, _)
ir_handle_parameters(parameters, i, ctx) ==
    IF i > Len(parameters) \/ ctx.err # "none" THEN ctx
    ELSE IF parameters[i] \in DOMAIN ctx.map
            /\ ctx.map[parameters[i]].from_current_scope
    THEN Fail(ctx, "Duplicate declaration of identifier")
    ELSE ir_handle_parameters(parameters, i + 1,
             [ctx EXCEPT
                !.n = Append(@, fresh_variable(ctx.counter, parameters[i])),
                !.map = Insert(@, parameters[i],
                    IdentifierMapEntry(fresh_variable(ctx.counter, parameters[i]),
                                       FALSE)),
                !.counter = @ + 1])

RECURSIVE ir_handle_statement(_, _)
RECURSIVE ir_handle_block(_, _, _)
RECURSIVE ir_handle_top_level_function_declaration(_, _)

IrBlockLeaks(node, f, items, map, ctx) ==
    NodeInto(node, f, NodeInto(Block(<<>>), "items",
        ir_handle_block(items, 1, [ctx EXCEPT !.n = <<>>, !.map = map])))

\* handle_block: the block's map is `map`; the caller's map is put back
ir_block(node, f, items, map, ctx) ==
    [NodeInto(node, f, NodeInto(Block(<<>>), "items",
        ir_handle_block(items, 1, [ctx EXCEPT !.n = <<>>, !.map = map])))
     EXCEPT !.map = ctx.map]

ir_handle_block_level_function_declaration(declaration, ctx) ==
    IF declaration.body.k # "None"
    THEN Fail(ctx, "Block level function declarations cannot have bodies")
    ELSE IF declaration.storage_class = "Static"
    THEN Fail(ctx, "Block level function declarations cannot have static storage class specifiers")
    ELSE ir_handle_top_level_function_declaration(declaration, ctx)

ir_handle_block(items, i, ctx) ==
    IF i > Len(items) \/ ctx.err # "none" THEN ctx
    ELSE ir_handle_block(items, i + 1,
             AppendNode(ctx.n,
                 CASE items[i].k = "VariableDeclaration" ->
                        ir_handle_block_level_variable_declaration(items[i], ctx)
                   [] items[i].k = "FunctionDeclaration" ->
                        ir_handle_block_level_function_declaration(items[i], ctx)
                   [] OTHER -> ir_handle_statement(items[i], ctx)))

\* Statement::For once the initializer is handled: init is the context after
\* it, whose map is inner_map
ir_handle_for(statement, map, init) ==
    LET c == ExprInto(init, [statement EXCEPT !.initializer = init.n], "condition",
                      ir_handle_opt_expression(statement.condition, init.map))
        p == ExprInto(c, c.n, "post",
                      ir_handle_opt_expression(statement.post, init.map))
    IN [NodeInto(p.n, "body", ir_handle_statement(statement.body, p))
        EXCEPT !.map = map]

ir_handle_statement(statement, ctx) ==
    CASE statement.k \in {"Return", "Expression"} ->
           ExprInto(ctx, statement, "expr",
                    ir_handle_expression(statement.expr, ctx.map))
      [] statement.k = "If" ->
           LET c == ExprInto(ctx, statement, "condition",
                             ir_handle_expression(statement.condition, ctx.map))
               t == NodeInto(c.n, "then_branch",
                             ir_handle_statement(statement.then_branch, c))
           IN IF statement.else_branch.k = "None" THEN t
              ELSE NodeInto(t.n, "else_branch",
                            ir_handle_statement(statement.else_branch, t))
      [] statement.k = "Labeled" ->
           NodeInto(statement, "statement",
                    ir_handle_statement(statement.statement, ctx))
      [] statement.k = "Compound" ->
           ir_block(statement, "block", statement.block.items,
                    clone_rescoped(ctx.map), ctx)
      [] statement.k = "While" ->
           LET c == ExprInto(ctx, statement, "condition",
                             ir_handle_expression(statement.condition, ctx.map))
           IN NodeInto(c.n, "body", ir_handle_statement(statement.body, c))
      [] statement.k = "DoWhile" ->
           LET b == NodeInto(statement, "body",
                             ir_handle_statement(statement.body, ctx))
           IN ExprInto(b, b.n, "condition",
                       ir_handle_expression(statement.condition, ctx.map))
      [] statement.k = "For" ->
           ir_handle_for(statement, ctx.map,
               CASE statement.initializer.k = "VariableDeclaration" ->
                      ir_handle_block_level_variable_declaration(
                          statement.initializer,
                          [ctx EXCEPT !.map = clone_rescoped(@)])
                 [] statement.initializer.k = "None" ->
                      [ctx EXCEPT !.n = NoneNode, !.map = clone_rescoped(@)]
                 [] OTHER ->
                      LET e == ir_handle_expression(statement.initializer, ctx.map)
                      IN [ctx EXCEPT !.n = e.n, !.map = clone_rescoped(@),
                                     !.err = FirstErr(@, e.err)])
      [] statement.k \in {"Null", "Goto", "Break", "Continue"} ->
           [ctx EXCEPT !.n = statement]

\* After the parameters: ps is the context whose n holds the fresh parameters
\* and whose map is inner_map; map is the map with the function inserted
ir_handle_function_body(declaration, map, ps) ==
    IF declaration.body.k = "None"
    THEN [ps EXCEPT !.n = [declaration EXCEPT !.parameters = ps.n], !.map = map]
    ELSE [ir_block([declaration EXCEPT !.parameters = ps.n], "body",
                   declaration.body.items, ps.map, ps)
          EXCEPT !.map = map]

ir_handle_top_level_function_declaration(declaration, ctx) ==
    LET f == declaration.function IN
    IF f \in DOMAIN ctx.map /\ ctx.map[f].from_current_scope
       /\ ~ctx.map[f].has_linkage
    THEN Fail(ctx, "Duplicate declaration of identifier")
    ELSE ir_handle_function_body(declaration,
             Insert(ctx.map, f, IdentifierMapEntry(f, TRUE)),
             ir_handle_parameters(declaration.parameters, 1,
                 [ctx EXCEPT !.n = <<>>,
                             !.map = clone_rescoped(
                                 Insert(@, f, IdentifierMapEntry(f, TRUE)))]))

\* handle_program: handle_top_level_declaration over the declarations
RECURSIVE ir_handle_program(_, _, _)
ir_handle_program(declarations, i, ctx) ==
    IF i > Len(declarations) \/ ctx.err # "none" THEN ctx
    ELSE ir_handle_program(declarations, i + 1,
             AppendNode(ctx.n,
                 IF declarations[i].k = "VariableDeclaration"
                 THEN [ctx EXCEPT
                         !.n = declarations[i],
                         !.map = Insert(@, declarations[i].variable,
                             IdentifierMapEntry(declarations[i].variable, TRUE))]
                 ELSE ir_handle_top_level_function_declaration(declarations[i], ctx)))

IdentifierResolver_analyze(program) ==
    PassResult(ir_handle_program(program, 1,
        [n |-> <<>>, map |-> <<>>, counter |-> 0, err |-> "none"]))

(***************************************************************************)
(* semantic/label_resolution.rs                                            *)
(*                                                                         *)
(* ctx = [n, map, counter, err]: the LabelMap of the function and the      *)
(* resolver's counter, which runs over the whole program.                  *)
(***************************************************************************)

SEMANTIC_LABEL_PREFIX == "SEMANTIC_LABEL"

FreshLabelWithoutCounter(prefix, counter, suffix) == <<prefix>> \o suffix

\* LabelResolver::fresh_label, LoopSwitchLabeler::fresh_loop_label,
\* SwitchCaseCollector::fresh_switch_case_label, TackyGen::fresh_label:
\* format!("{PREFIX}.{}.{}", counter, suffix)
fresh_label(prefix, counter, suffix) == <<prefix, ToString(counter)>> \o suffix

RECURSIVE rewrite_label_in_statement(_, _)
RECURSIVE rewrite_label_in_block(_, _, _)
RECURSIVE rewrite_goto_in_statement(_, _)
RECURSIVE rewrite_goto_in_block(_, _, _)

\* statement with the result of handling its Box<Statement> field f
lr_descend(statement, f, ctx, phase) ==
    NodeInto(statement, f,
             IF phase = "label" THEN rewrite_label_in_statement(statement[f], ctx)
             ELSE rewrite_goto_in_statement(statement[f], ctx))

\* The arms the two traversals share: If, Compound, the loops, the leaves and
\* the todo!() of Switch, Case and Default
lr_rewrite_in_statement(statement, ctx, phase) ==
    CASE statement.k = "If" ->
           LET t == lr_descend(statement, "then_branch", ctx, phase) IN
           IF statement.else_branch.k = "None" THEN t
           ELSE lr_descend(t.n, "else_branch", t, phase)
      [] statement.k = "Compound" ->
           NodeInto(statement, "block", NodeInto(Block(<<>>), "items",
               IF phase = "label"
               THEN rewrite_label_in_block(statement.block.items, 1,
                                           [ctx EXCEPT !.n = <<>>])
               ELSE rewrite_goto_in_block(statement.block.items, 1,
                                          [ctx EXCEPT !.n = <<>>])))
      [] statement.k \in {"While", "DoWhile", "For"} ->
           lr_descend(statement, "body", ctx, phase)
      [] statement.k \in {"Switch", "Case", "Default"} ->
           Fail(ctx, "panic")
      [] OTHER -> [ctx EXCEPT !.n = statement]

rewrite_label_in_statement(statement, ctx) ==
    IF statement.k = "Labeled"
    THEN LET new_label == fresh_label(SEMANTIC_LABEL_PREFIX, ctx.counter,
                                      statement.label)
         IN IF statement.label \in DOMAIN ctx.map
            THEN Fail(ctx, "Label already declared")
            ELSE NodeInto([statement EXCEPT !.label = new_label], "statement",
                     rewrite_label_in_statement(statement.statement,
                         [ctx EXCEPT !.map = Insert(@, statement.label, new_label),
                                     !.counter = @ + 1]))
    ELSE lr_rewrite_in_statement(statement, ctx, "label")

rewrite_label_in_block(items, i, ctx) ==
    IF i > Len(items) \/ ctx.err # "none" THEN ctx
    ELSE rewrite_label_in_block(items, i + 1,
             AppendNode(ctx.n,
                 IF items[i].k \in {"VariableDeclaration", "FunctionDeclaration"}
                 THEN [ctx EXCEPT !.n = items[i]]
                 ELSE rewrite_label_in_statement(items[i], ctx)))

rewrite_goto_in_statement(statement, ctx) ==
    CASE statement.k = "Goto" ->
           IF statement.label \in DOMAIN ctx.map
           THEN [ctx EXCEPT !.n = [statement EXCEPT !.label = ctx.map[statement.label]]]
           ELSE Fail(ctx, "Label not declared")
      [] statement.k = "Labeled" -> lr_descend(statement, "statement", ctx, "goto")
      [] OTHER -> lr_rewrite_in_statement(statement, ctx, "goto")

rewrite_goto_in_block(items, i, ctx) ==
    IF i > Len(items) \/ ctx.err # "none" THEN ctx
    ELSE rewrite_goto_in_block(items, i + 1,
             AppendNode(ctx.n,
                 IF items[i].k \in {"VariableDeclaration", "FunctionDeclaration"}
                 THEN [ctx EXCEPT !.n = items[i]]
                 ELSE rewrite_goto_in_statement(items[i], ctx)))

\* LabelResolver::handle_function_declaration: labels first, then the gotos
\* of the body the first traversal returned (labelled is its context)
lr_rewrite_gotos(fd, labelled) ==
    NodeInto(fd, "body", NodeInto(Block(<<>>), "items",
        rewrite_goto_in_block(labelled.n, 1, [labelled EXCEPT !.n = <<>>])))

lr_handle_function_declaration(fd, ctx) ==
    IF fd.body.k = "None" THEN [ctx EXCEPT !.n = fd]
    ELSE lr_rewrite_gotos(fd,
             rewrite_label_in_block(fd.body.items, 1,
                 [ctx EXCEPT !.n = <<>>, !.map = <<>>]))

\* The loop of analyze over the declarations
RECURSIVE lr_analyze(_, _, _)
lr_analyze(declarations, i, ctx) ==
    IF i > Len(declarations) \/ ctx.err # "none" THEN ctx
    ELSE lr_analyze(declarations, i + 1,
             AppendNode(ctx.n,
                 IF declarations[i].k = "FunctionDeclaration"
                 THEN lr_handle_function_declaration(declarations[i], ctx)
                 ELSE [ctx EXCEPT !.n = declarations[i]]))

LabelResolver_analyze(program) ==
    PassResult(lr_analyze(program, 1,
        [n |-> <<>>, map |-> <<>>, counter |-> 0, err |-> "none"]))

(***************************************************************************)
(* semantic/loop_switch_labeling.rs                                        *)
(*                                                                         *)
(* ctx = [n, loop_counter, switch_counter, err]; enclosing = [breakable,   *)
(* continuable], <<>> for None.                                            *)
(***************************************************************************)

SEMANTIC_LOOP_PREFIX == "SEMANTIC_LOOP"

SEMANTIC_SWITCH_PREFIX == "SEMANTIC_SWITCH"

LoopSuffix(k) ==
    CASE k = "While" -> <<"while">> [] k = "DoWhile" -> <<"do">> [] k = "For" -> <<"for">>

\* The Enclosing of a loop body and of a switch body
EnclosingOfLoop(fresh) == [breakable |-> fresh, continuable |-> fresh]

EnclosingOfSwitchNoLoop(fresh, enclosing) ==
    [breakable |-> fresh, continuable |-> <<>>]

EnclosingOfSwitch(fresh, enclosing) ==
    [breakable |-> fresh, continuable |-> enclosing.continuable]

RECURSIVE lsl_handle_statement(_, _, _)
RECURSIVE lsl_handle_block(_, _, _, _)

lsl_handle_statement(statement, enclosing, ctx) ==
    CASE statement.k = "Break" ->
           IF enclosing.breakable = <<>>
           THEN Fail(ctx, "Break statement outside of loop or switch")
           ELSE [ctx EXCEPT !.n = [statement EXCEPT !.label = enclosing.breakable]]
      [] statement.k = "Continue" ->
           IF enclosing.continuable = <<>>
           THEN Fail(ctx, "Continue statement outside of loop")
           ELSE [ctx EXCEPT !.n = [statement EXCEPT !.label = enclosing.continuable]]
      [] statement.k \in {"While", "DoWhile", "For"} ->
           LET fresh == fresh_label(SEMANTIC_LOOP_PREFIX, ctx.loop_counter,
                                    LoopSuffix(statement.k))
           IN NodeInto([statement EXCEPT !.label = fresh], "body",
                  lsl_handle_statement(statement.body,
                      EnclosingOfLoop(fresh),
                      [ctx EXCEPT !.loop_counter = @ + 1]))
      [] statement.k = "Switch" ->
           LET fresh == fresh_label(SEMANTIC_SWITCH_PREFIX, ctx.switch_counter, <<>>)
           IN NodeInto([statement EXCEPT !.label = fresh], "body",
                  lsl_handle_statement(statement.body,
                      EnclosingOfSwitch(fresh, enclosing),
                      [ctx EXCEPT !.switch_counter = @ + 1]))
      [] statement.k = "If" ->
           LET t == NodeInto(statement, "then_branch",
                     lsl_handle_statement(statement.then_branch, enclosing, ctx))
           IN IF statement.else_branch.k = "None" THEN t
              ELSE NodeInto(t.n, "else_branch",
                       lsl_handle_statement(statement.else_branch, enclosing, t))
      [] statement.k = "Labeled" ->
           NodeInto(statement, "statement",
                    lsl_handle_statement(statement.statement, enclosing, ctx))
      [] statement.k = "Compound" ->
           NodeInto(statement, "block", NodeInto(Block(<<>>), "items",
               lsl_handle_block(statement.block.items, 1, enclosing,
                                [ctx EXCEPT !.n = <<>>])))
      [] statement.k \in {"Case", "Default"} ->
           NodeInto(statement, "body",
                    lsl_handle_statement(statement.body, enclosing, ctx))
      [] statement.k \in {"Null", "Return", "Expression", "Goto"} ->
           [ctx EXCEPT !.n = statement]

lsl_handle_block(items, i, enclosing, ctx) ==
    IF i > Len(items) \/ ctx.err # "none" THEN ctx
    ELSE lsl_handle_block(items, i + 1, enclosing,
             AppendNode(ctx.n,
                 IF items[i].k \in {"VariableDeclaration", "FunctionDeclaration"}
                 THEN [ctx EXCEPT !.n = items[i]]
                 ELSE lsl_handle_statement(items[i], enclosing, ctx)))

RECURSIVE lsl_analyze(_, _, _)
lsl_analyze(declarations, i, ctx) ==
    IF i > Len(declarations) \/ ctx.err # "none" THEN ctx
    ELSE lsl_analyze(declarations, i + 1,
             AppendNode(ctx.n,
                 IF declarations[i].k = "FunctionDeclaration"
                    /\ declarations[i].body.k # "None"
                 THEN NodeInto(declarations[i], "body",
                          NodeInto(Block(<<>>), "items",
                              lsl_handle_block(declarations[i].body.items, 1,
                                  [breakable |-> <<>>, continuable |-> <<>>],
                                  [ctx EXCEPT !.n = <<>>])))
                 ELSE [ctx EXCEPT !.n = declarations[i]]))

LoopSwitchLabeler_analyze(program) ==
    PassResult(lsl_analyze(program, 1,
        [n |-> <<>>, loop_counter |-> 0, switch_counter |-> 0, err |-> "none"]))

(***************************************************************************)
(* semantic/switch_case_collection.rs                                      *)
(*                                                                         *)
(* ctx = [n, cases, counter, err]: cases is the Option<SwitchCases> the    *)
(* handler returns beside the node, NoneNode for None.                     *)
(***************************************************************************)

SEMANTIC_CASE_PREFIX == "SEMANTIC_CASE"

SwitchCases(cases, default) ==
    [k |-> "SwitchCases", cases |-> cases, default |-> default]

\* Constant derives PartialEq, Eq and Hash: two constants are the same
\* element of the HashSet when variant and number agree
SameConstant(a, b) == a.c = b.c /\ a.w = b.w

\* merge_and_verify_switch_cases: [cases, err]
merge_and_verify_switch_cases(lhs, rhs) ==
    IF lhs.k = "None" THEN [cases |-> rhs, err |-> "none"]
    ELSE IF rhs.k = "None" THEN [cases |-> lhs, err |-> "none"]
    ELSE IF lhs.default # <<>> /\ rhs.default # <<>>
    THEN [cases |-> NoneNode, err |-> "Multiple default cases in switch statement"]
    ELSE LET all == lhs.cases \o rhs.cases IN
         IF \E i \in 1..Len(all) : all[i].expr.k # "Constant"
         THEN [cases |-> NoneNode, err |-> "Non-constant expression in switch case"]
         ELSE IF \E i, j \in 1..Len(all) : i < j /\ SameConstant(all[i].expr, all[j].expr)
         THEN [cases |-> NoneNode, err |-> "Duplicate case value in switch statement"]
         ELSE [cases |-> SwitchCases(all,
                             IF lhs.default # <<>> THEN lhs.default ELSE rhs.default),
               err |-> "none"]

\* r with the cases `before` merged in front of its own
scc_merge(before, r) ==
    [r EXCEPT !.cases = merge_and_verify_switch_cases(before, r.cases).cases,
              !.err = FirstErr(@, merge_and_verify_switch_cases(before, r.cases).err)]

RECURSIVE scc_handle_statement(_, _)
RECURSIVE scc_handle_block(_, _, _)

\* else_branch handled after then_branch, whose context is t
scc_handle_else(statement, t) ==
    scc_merge(t.cases,
              NodeInto([statement EXCEPT !.then_branch = t.n], "else_branch",
                       scc_handle_statement(statement.else_branch, t)))

scc_handle_statement(statement, ctx) ==
    CASE statement.k = "Switch" ->
           LET b == scc_handle_statement(statement.body, ctx) IN
           [b EXCEPT !.n = [statement EXCEPT !.body = b.n, !.cases = b.cases],
                     !.cases = NoneNode]
      [] statement.k = "Case" ->
           IF statement.expression.k # "Constant"
           THEN Fail(ctx, "Non-constant expression in switch case")
           ELSE LET case_label ==
                        fresh_label(SEMANTIC_CASE_PREFIX, ctx.counter,
                            <<"value", ToString(statement.expression.c)>>)
                IN scc_merge(
                     SwitchCases(<<[expr |-> statement.expression,
                                    label |-> case_label]>>, <<>>),
                     NodeInto([statement EXCEPT !.label = case_label], "body",
                         scc_handle_statement(statement.body,
                                              [ctx EXCEPT !.counter = @ + 1])))
      [] statement.k = "Default" ->
           LET case_label == fresh_label(SEMANTIC_CASE_PREFIX, ctx.counter,
                                         <<"default">>)
           IN scc_merge(
                SwitchCases(<<>>, case_label),
                NodeInto([statement EXCEPT !.label = case_label], "body",
                    scc_handle_statement(statement.body,
                                         [ctx EXCEPT !.counter = @ + 1])))
      [] statement.k = "If" ->
           IF statement.else_branch.k = "None"
           THEN NodeInto(statement, "then_branch",
                         scc_handle_statement(statement.then_branch, ctx))
           ELSE scc_handle_else(statement,
                                scc_handle_statement(statement.then_branch, ctx))
      [] statement.k = "Labeled" ->
           NodeInto(statement, "statement",
                    scc_handle_statement(statement.statement, ctx))
      [] statement.k = "Compound" ->
           NodeInto(statement, "block", NodeInto(Block(<<>>), "items",
               scc_handle_block(statement.block.items, 1,
                                [ctx EXCEPT !.n = <<>>, !.cases = NoneNode])))
      [] statement.k \in {"While", "DoWhile", "For"} ->
           NodeInto(statement, "body", scc_handle_statement(statement.body, ctx))
      [] statement.k \in {"Null", "Return", "Expression", "Goto", "Break",
                          "Continue"} ->
           [ctx EXCEPT !.n = statement, !.cases = NoneNode]

\* ctx.cases holds the local switch_cases of handle_block
scc_handle_block(items, i, ctx) ==
    IF i > Len(items) \/ ctx.err # "none" THEN ctx
    ELSE scc_handle_block(items, i + 1,
             IF items[i].k \in {"VariableDeclaration", "FunctionDeclaration"}
             THEN [ctx EXCEPT !.n = Append(@, items[i])]
             ELSE scc_merge(ctx.cases,
                            AppendNode(ctx.n, scc_handle_statement(items[i], ctx))))

\* analyze, one function body: cases left over are outside of any switch
scc_handle_body(fd, r) ==
    IF r.err = "none" /\ r.cases.k # "None"
    THEN Fail(r, "Unexpected switch case outside of switch statement")
    ELSE NodeInto(fd, "body", NodeInto(Block(<<>>), "items", r))

RECURSIVE scc_analyze(_, _, _)
scc_analyze(declarations, i, ctx) ==
    IF i > Len(declarations) \/ ctx.err # "none" THEN ctx
    ELSE scc_analyze(declarations, i + 1,
             AppendNode(ctx.n,
                 IF declarations[i].k = "FunctionDeclaration"
                    /\ declarations[i].body.k # "None"
                 THEN scc_handle_body(declarations[i],
                          scc_handle_block(declarations[i].body.items, 1,
                              [ctx EXCEPT !.n = <<>>, !.cases = NoneNode]))
                 ELSE [ctx EXCEPT !.n = declarations[i]]))

SwitchCaseCollector_analyze(program) ==
    PassResult(scc_analyze(program, 1,
        [n |-> <<>>, cases |-> NoneNode, counter |-> 0, err |-> "none"]))

(***************************************************************************)
(* semantic/type_check.rs, compiler/symbols.rs                             *)
(*                                                                         *)
(* ctx = [n, symbols, err]: symbols is the SymbolTable, a function from    *)
(* identifiers to Symbol records.                                          *)
(***************************************************************************)

TypeLong == [k |-> "Long"]

Symbol(ty, attrs) == [ty |-> ty, attrs |-> attrs]

FunctionAttrs(defined, global) ==
    [k |-> "Function", defined |-> defined, global |-> global]

StaticAttrs(initial, global) ==
    [k |-> "Static", initial |-> initial, global |-> global]

LocalAttrs == [k |-> "Local"]

\* SymbolInitialValue: Tentative, Initial(_), None (NoneNode)
Tentative == [k |-> "Tentative"]

Initial(v) == [k |-> "Initial", v |-> v]

get_common_type(ty1, ty2) == IF ty1 = ty2 THEN ty1 ELSE TypeLong

convert_to_type(expr, ty) ==
    IF expr.ty = ty THEN expr
    ELSE [k |-> "Cast", target_ty |-> ty, expr |-> expr, ty |-> ty]

\* The constants of the programs are ConstantInt: Int keeps n, Long widens it
constant_to_static_initial(c, ty) ==
    IF ty.k = "Int" THEN [k |-> "Int", v |-> c] ELSE [k |-> "Long", v |-> c]

\* convert_to_type on the Ok of handle_expression
tc_converted(r, ty) ==
    IF r.err = "none" THEN [r EXCEPT !.n = convert_to_type(r.n, ty)] ELSE r

RelationalOperators ==
    {"Equal", "NotEqual", "LessThan", "LessOrEqual", "GreaterThan", "GreaterOrEqual"}

RECURSIVE tc_handle_expression(_, _)
tc_handle_expression(expr, symbols) ==
    CASE expr.k = "FunctionCall" ->
           IF expr.function \notin DOMAIN symbols
           THEN [n |-> expr, err |-> "panic"]
           ELSE IF symbols[expr.function].ty.k # "Function"
           THEN [n |-> expr, err |-> "is not a function"]
           ELSE IF Len(symbols[expr.function].ty.parameters) # Len(expr.arguments)
           THEN [n |-> expr, err |-> "Function called with wrong number of arguments"]
           ELSE LET as == [i \in 1..Len(expr.arguments) |->
                             tc_converted(
                                 tc_handle_expression(expr.arguments[i], symbols),
                                 symbols[expr.function].ty.parameters[i])]
                IN [n |-> [expr EXCEPT
                             !.arguments = [i \in 1..Len(as) |-> as[i].n],
                             !.ty = symbols[expr.function].ty.return_type],
                    err |-> FirstErrOf(as)]
      [] expr.k = "Variable" ->
           IF expr.v \notin DOMAIN symbols
           THEN [n |-> expr, err |-> "panic"]
           ELSE IF symbols[expr.v].ty.k = "Function"
           THEN [n |-> expr, err |-> "is not a variable"]
           ELSE [n |-> [expr EXCEPT !.ty = symbols[expr.v].ty], err |-> "none"]
      [] expr.k = "Unary" ->
           LET typed == tc_handle_expression(expr.expr, symbols) IN
           [n |-> [expr EXCEPT !.expr = typed.n,
                               !.ty = IF expr.op = "Not" THEN TypeInt
                                      ELSE typed.n.ty],
            err |-> typed.err]
      [] expr.k = "Binary" ->
           LET typed_lhs == tc_handle_expression(expr.lhs, symbols)
               typed_rhs == tc_handle_expression(expr.rhs, symbols)
               common == get_common_type(typed_lhs.n.ty, typed_rhs.n.ty)
           IN IF expr.op \in {"LogicalAnd", "LogicalOr"}
              THEN [n |-> [expr EXCEPT !.lhs = typed_lhs.n, !.rhs = typed_rhs.n,
                                       !.ty = TypeInt],
                    err |-> FirstErr(typed_lhs.err, typed_rhs.err)]
              ELSE [n |-> [expr EXCEPT
                             !.lhs = convert_to_type(typed_lhs.n, common),
                             !.rhs = convert_to_type(typed_rhs.n, common),
                             !.ty = IF expr.op \in RelationalOperators
                                    THEN TypeInt ELSE common],
                    err |-> FirstErr(typed_lhs.err, typed_rhs.err)]
      [] expr.k = "Assignment" ->
           LET typed_lhs == tc_handle_expression(expr.lhs, symbols)
               typed_rhs == tc_handle_expression(expr.rhs, symbols)
           IN [n |-> [expr EXCEPT
                        !.lhs = typed_lhs.n,
                        !.rhs = convert_to_type(typed_rhs.n, typed_lhs.n.ty),
                        !.ty = typed_lhs.n.ty],
               err |-> FirstErr(typed_lhs.err, typed_rhs.err)]
      [] expr.k = "Conditional" ->
           LET typed_condition == tc_handle_expression(expr.condition, symbols)
               typed_then == tc_handle_expression(expr.then_expr, symbols)
               typed_else == tc_handle_expression(expr.else_expr, symbols)
               common == get_common_type(typed_then.n.ty, typed_else.n.ty)
           IN [n |-> [expr EXCEPT
                        !.condition = typed_condition.n,
                        !.then_expr = convert_to_type(typed_then.n, common),
                        !.else_expr = convert_to_type(typed_else.n, common),
                        !.ty = common],
               err |-> FirstErr(typed_condition.err,
                                FirstErr(typed_then.err, typed_else.err))]
      [] expr.k = "Constant" ->
           [n |-> [expr EXCEPT !.ty = IF expr.w = "ConstantInt" THEN TypeInt
                                      ELSE TypeLong],
            err |-> "none"]
      [] expr.k = "Cast" ->
           LET typed == tc_handle_expression(expr.expr, symbols) IN
           [n |-> [expr EXCEPT !.expr = typed.n, !.ty = expr.target_ty],
            err |-> typed.err]

tc_handle_opt_expression(opt_expr, symbols) ==
    IF opt_expr.k = "None" THEN [n |-> opt_expr, err |-> "none"]
    ELSE tc_handle_expression(opt_expr, symbols)

\* symbols.insert of a Static symbol, and Ok(declaration.clone())
tc_insert_static(declaration, initial, global, ctx) ==
    [ctx EXCEPT !.n = declaration,
                !.symbols = Insert(@, declaration.variable,
                    Symbol(declaration.ty, StaticAttrs(initial, global)))]

\* `initial` before the table is consulted; the initializer is a constant or None
tc_declared_initial(declaration) ==
    IF declaration.initializer.k = "Constant"
    THEN Initial(constant_to_static_initial(declaration.initializer.c,
                                            declaration.ty))
    ELSE IF declaration.storage_class = "Extern" THEN NoneNode
    ELSE Tentative

TcDeclaredInitialWins(entry_initial, initial) == initial

\* `match entry_initial`, past its Err: the initial the entry is left with
tc_merged_initial(entry_initial, initial) ==
    CASE entry_initial.k = "Initial" -> entry_initial
      [] entry_initial.k = "Tentative" /\ initial.k # "Initial" -> Tentative
      [] OTHER -> initial

\* the `if let Some(entry)` of handle_top_level_variable_declaration
tc_redeclared_variable(declaration, initial, global, entry, ctx) ==
    IF entry.ty # declaration.ty
    THEN Fail(ctx, "Incompatible redeclaration of variable")
    ELSE IF entry.attrs.k # "Static"
    THEN Fail(ctx, "panic")
    ELSE IF declaration.storage_class # "Extern" /\ entry.attrs.global # global
    THEN Fail(ctx, "Conflicting variable linkage")
    ELSE IF entry.attrs.initial.k = "Initial" /\ initial.k = "Initial"
    THEN Fail(ctx, "Conflicting file scope variable definition")
    ELSE tc_insert_static(declaration,
             tc_merged_initial(entry.attrs.initial, initial),
             IF declaration.storage_class = "Extern" THEN entry.attrs.global
             ELSE global,
             ctx)

tc_handle_top_level_variable_declaration(declaration, ctx) ==
    IF declaration.initializer.k \notin {"Constant", "None"}
    THEN Fail(ctx, "Non-constant initializer")
    ELSE IF declaration.variable \in DOMAIN ctx.symbols
    THEN tc_redeclared_variable(declaration, tc_declared_initial(declaration),
             declaration.storage_class # "Static",
             ctx.symbols[declaration.variable], ctx)
    ELSE tc_insert_static(declaration, tc_declared_initial(declaration),
             declaration.storage_class # "Static", ctx)

tc_handle_block_level_variable_declaration(declaration, ctx) ==
    CASE declaration.storage_class = "Extern" ->
           IF declaration.initializer.k # "None"
           THEN Fail(ctx, "Block-level extern variable cannot have an initializer")
           ELSE IF declaration.variable \notin DOMAIN ctx.symbols
           THEN tc_insert_static(declaration, NoneNode, TRUE, ctx)
           ELSE IF ctx.symbols[declaration.variable].ty # declaration.ty
           THEN Fail(ctx, "Incompatible redeclaration of variable")
           ELSE [ctx EXCEPT !.n = declaration]
      [] declaration.storage_class = "Static" ->
           IF declaration.initializer.k \notin {"Constant", "None"}
           THEN Fail(ctx, "Non-constant initializer on block-level static variable")
           ELSE tc_insert_static(declaration,
                    Initial(constant_to_static_initial(
                        IF declaration.initializer.k = "None" THEN 0
                        ELSE declaration.initializer.c,
                        declaration.ty)),
                    FALSE, ctx)
      [] OTHER ->
           ExprInto([ctx EXCEPT !.symbols = Insert(@, declaration.variable,
                                    Symbol(declaration.ty, LocalAttrs))],
                    declaration, "initializer",
                    IF declaration.initializer.k = "None"
                    THEN [n |-> NoneNode, err |-> "none"]
                    ELSE tc_converted(
                             tc_handle_expression(declaration.initializer,
                                 Insert(ctx.symbols, declaration.variable,
                                        Symbol(declaration.ty, LocalAttrs))),
                             declaration.ty))

\* the symbols.insert of the parameters, zipped with their types
RECURSIVE tc_insert_parameters(_, _, _, _)
tc_insert_parameters(symbols, parameters, tys, i) ==
    IF i > Len(parameters) \/ i > Len(tys) THEN symbols
    ELSE tc_insert_parameters(
             Insert(symbols, parameters[i], Symbol(tys[i], LocalAttrs)),
             parameters, tys, i + 1)

RECURSIVE tc_handle_statement(_, _, _)
RECURSIVE tc_handle_block(_, _, _, _)

\* handle_function_declaration from the insertion of the function on
tc_insert_function(declaration, attrs, ctx) ==
    IF declaration.body.k = "None"
    THEN [ctx EXCEPT !.n = declaration,
                     !.symbols = Insert(@, declaration.function,
                                        Symbol(declaration.ty, attrs))]
    ELSE NodeInto(declaration, "body", NodeInto(Block(<<>>), "items",
             tc_handle_block(declaration.body.items, 1, declaration.ty.return_type,
                 [ctx EXCEPT
                    !.n = <<>>,
                    !.symbols = tc_insert_parameters(
                        Insert(@, declaration.function,
                               Symbol(declaration.ty, attrs)),
                        declaration.parameters, declaration.ty.parameters, 1)])))

TcRedeclaredAttrsOwnLinkage(declaration, entry) ==
    FunctionAttrs(entry.attrs.defined \/ declaration.body.k # "None",
                  declaration.storage_class # "Static")

\* global = entry_global; defined: already_defined || has_body
tc_redeclared_attrs(declaration, entry) ==
    FunctionAttrs(entry.attrs.defined \/ declaration.body.k # "None",
                  entry.attrs.global)

\* the `if let Some(entry)` of handle_function_declaration
tc_redeclared_function(declaration, entry, ctx) ==
    IF entry.ty # declaration.ty
    THEN Fail(ctx, "Incompatible redeclaration of function")
    ELSE IF entry.attrs.k # "Function"
    THEN Fail(ctx, "panic")
    ELSE IF entry.attrs.defined /\ declaration.body.k # "None"
    THEN Fail(ctx, "Redefinition of function")
    ELSE IF entry.attrs.global /\ declaration.storage_class = "Static"
    THEN Fail(ctx, "Static function declaration after non-static declaration")
    ELSE tc_insert_function(declaration, tc_redeclared_attrs(declaration, entry),
                            ctx)

tc_handle_function_declaration(declaration, ctx) ==
    IF declaration.function \in DOMAIN ctx.symbols
    THEN tc_redeclared_function(declaration, ctx.symbols[declaration.function], ctx)
    ELSE tc_insert_function(declaration,
             FunctionAttrs(declaration.body.k # "None",
                           declaration.storage_class # "Static"),
             ctx)

\* Some(ForInitializer::Expression(self.handle_expression(expr)?))
tc_expression_initializer(ctx, e) ==
    [ctx EXCEPT !.n = e.n, !.err = FirstErr(@, e.err)]

\* Statement::For once the initializer is handled: init is the context after it
tc_handle_for(statement, enclosing_return_type, init) ==
    LET c == ExprInto(init, [statement EXCEPT !.initializer = init.n], "condition",
                      tc_handle_opt_expression(statement.condition, init.symbols))
        p == ExprInto(c, c.n, "post",
                      tc_handle_opt_expression(statement.post, init.symbols))
    IN NodeInto(p.n, "body",
                tc_handle_statement(statement.body, enclosing_return_type, p))

tc_handle_statement(statement, enclosing_return_type, ctx) ==
    CASE statement.k = "Return" ->
           ExprInto(ctx, statement, "expr",
                    tc_converted(tc_handle_expression(statement.expr, ctx.symbols),
                                 enclosing_return_type))
      [] statement.k = "Expression" ->
           ExprInto(ctx, statement, "expr",
                    tc_handle_expression(statement.expr, ctx.symbols))
      [] statement.k = "If" ->
           LET c == ExprInto(ctx, statement, "condition",
                             tc_handle_expression(statement.condition, ctx.symbols))
               t == NodeInto(c.n, "then_branch",
                        tc_handle_statement(statement.then_branch,
                                            enclosing_return_type, c))
           IN IF statement.else_branch.k = "None" THEN t
              ELSE NodeInto(t.n, "else_branch",
                       tc_handle_statement(statement.else_branch,
                                           enclosing_return_type, t))
      [] statement.k = "Labeled" ->
           NodeInto(statement, "statement",
                    tc_handle_statement(statement.statement,
                                        enclosing_return_type, ctx))
      [] statement.k = "Compound" ->
           NodeInto(statement, "block", NodeInto(Block(<<>>), "items",
               tc_handle_block(statement.block.items, 1, enclosing_return_type,
                               [ctx EXCEPT !.n = <<>>])))
      [] statement.k = "While" ->
           LET c == ExprInto(ctx, statement, "condition",
                             tc_handle_expression(statement.condition, ctx.symbols))
           IN NodeInto(c.n, "body",
                  tc_handle_statement(statement.body, enclosing_return_type, c))
      [] statement.k = "DoWhile" ->
           LET b == NodeInto(statement, "body",
                        tc_handle_statement(statement.body,
                                            enclosing_return_type, ctx))
           IN ExprInto(b, b.n, "condition",
                       tc_handle_expression(statement.condition, b.symbols))
      [] statement.k = "For" ->
           CASE statement.initializer.k = "VariableDeclaration" ->
                  IF statement.initializer.storage_class # "None"
                  THEN Fail(ctx, "For loop variable declaration cannot have storage class")
                  ELSE tc_handle_for(statement, enclosing_return_type,
                           tc_handle_block_level_variable_declaration(
                               statement.initializer, ctx))
             [] statement.initializer.k = "None" ->
                  tc_handle_for(statement, enclosing_return_type,
                                [ctx EXCEPT !.n = NoneNode])
             [] OTHER ->
                  tc_handle_for(statement, enclosing_return_type,
                      tc_expression_initializer(ctx,
                          tc_handle_expression(statement.initializer,
                                               ctx.symbols)))
      [] statement.k = "Switch" ->
           LET e == ExprInto(ctx, statement, "expression",
                             tc_handle_expression(statement.expression, ctx.symbols))
           IN NodeInto(e.n, "body",
                  tc_handle_statement(statement.body, enclosing_return_type, e))
      [] statement.k \in {"Case", "Default"} ->
           NodeInto(statement, "body",
                    tc_handle_statement(statement.body, enclosing_return_type, ctx))
      [] statement.k \in {"Null", "Goto", "Break", "Continue"} ->
           [ctx EXCEPT !.n = statement]

tc_handle_block(items, i, enclosing_return_type, ctx) ==
    IF i > Len(items) \/ ctx.err # "none" THEN ctx
    ELSE tc_handle_block(items, i + 1, enclosing_return_type,
             AppendNode(ctx.n,
                 CASE items[i].k = "VariableDeclaration" ->
                        tc_handle_block_level_variable_declaration(items[i], ctx)
                   [] items[i].k = "FunctionDeclaration" ->
                        tc_handle_function_declaration(items[i], ctx)
                   [] OTHER ->
                        tc_handle_statement(items[i], enclosing_return_type, ctx)))

\* handle_program: handle_top_level_declaration over the declarations
RECURSIVE tc_handle_program(_, _, _)
tc_handle_program(declarations, i, ctx) ==
    IF i > Len(declarations) \/ ctx.err # "none" THEN ctx
    ELSE tc_handle_program(declarations, i + 1,
             AppendNode(ctx.n,
                 IF declarations[i].k = "VariableDeclaration"
                 THEN tc_handle_top_level_variable_declaration(declarations[i], ctx)
                 ELSE tc_handle_function_declaration(declarations[i], ctx)))

\* Ok((analyzed, tc.symbols)) or Err
TypeChecker_analyze(program) ==
    tc_handle_program(program, 1, [n |-> <<>>, symbols |-> <<>>, err |-> "none"])

(***************************************************************************)
(* compiler/tackygen.rs                                                    *)
(*                                                                         *)
(* ctx = [n, ins, variable_counter, label_counter, err]: ins is the        *)
(* `ins: &mut Vec<tacky::Instruction>` the handlers push to, n the         *)
(* tacky::Value handle_expression returns, err is "panic" once an          *)
(* unreachable!() or todo!() is met.  A TAC instruction has the fields the *)
(* codegen section reads.                                                  *)
(***************************************************************************)

TAC_VAR_PREFIX == "TAC_VAR"

TAC_LABEL_PREFIX == "TAC_LABEL"

tg_fresh_variable(counter) == <<TAC_VAR_PREFIX, ToString(counter)>>

TgFreshLabelOfSuffix(counter, suffix) == <<TAC_LABEL_PREFIX>> \o suffix

tg_fresh_label(counter, suffix) == fresh_label(TAC_LABEL_PREFIX, counter, suffix)

break_label(label) == label \o <<"break">>

BreakLoopLabelEnd(label) == label \o <<"end">>

break_loop_label(label) == break_label(label)

continue_label(label) == label \o <<"continue">>

TacConstant(n) == [k |-> "Constant", v |-> n]

TacLabel(label) == [k |-> "Label", label |-> label]

TacJump(target) == [k |-> "Jump", target |-> target]

TacCopy(src, dst) == [k |-> "Copy", src |-> src, dst |-> dst]

\* ins.push(..) of the instructions, in order
Push(ctx, instructions) == [ctx EXCEPT !.ins = @ \o instructions]

\* JumpIfZero / JumpIfNotZero on the value the context holds
PushJumpIf(ctx, kind, target) ==
    Push(ctx, <<[k |-> kind, condition |-> ctx.n, target |-> target]>>)

\* The pushes, and the variable as the value of the context
Yield(ctx, instructions, variable) ==
    [ctx EXCEPT !.ins = @ \o instructions, !.n = TacVar(variable)]

\* self.fresh_variable() / self.fresh_label(): the counters after the names
\* are taken
Take(ctx, variables, labels) ==
    [ctx EXCEPT !.variable_counter = @ + variables, !.label_counter = @ + labels]

handle_assignment_operator(op) ==
    CASE op = "AddAssign" -> "Add" [] op = "SubtractAssign" -> "Subtract"
      [] op = "MultiplyAssign" -> "Multiply" [] op = "DivideAssign" -> "Divide"
      [] op = "RemainderAssign" -> "Remainder"
      [] op = "BitwiseAndAssign" -> "BitwiseAnd"
      [] op = "BitwiseOrAssign" -> "BitwiseOr"
      [] op = "BitwiseXorAssign" -> "BitwiseXor"
      [] op = "ShiftLeftAssign" -> "ShiftLeft"
      [] op = "ShiftRightAssign" -> "ShiftRight"

\* ++x, --x, x++, x-- on the variable
tg_increment(op, variable, ctx) ==
    LET binary == [k |-> "Binary",
                   op |-> IF op \in {"PrefixIncrement", "PostfixIncrement"}
                          THEN "Add" ELSE "Subtract",
                   lhs |-> TacVar(variable), rhs |-> TacConstant(1),
                   dst |-> variable]
        prev == tg_fresh_variable(ctx.variable_counter)
    IN IF op \in {"PrefixIncrement", "PrefixDecrement"}
       THEN Yield(ctx, <<binary>>, variable)
       ELSE Yield(Take(ctx, 1, 0), <<TacCopy(TacVar(variable), prev), binary>>, prev)

\* the other unary operators: r is the context after the operand
tg_unary(op, r) ==
    Yield(Take(r, 1, 0),
          <<[k |-> "Unary", op |-> op, src |-> r.n,
             dst |-> tg_fresh_variable(r.variable_counter)]>>,
          tg_fresh_variable(r.variable_counter))

\* the other binary operators: lhs is the value of the left operand, r the
\* context after the right operand
tg_binary(op, lhs, r) ==
    Yield(Take(r, 1, 0),
          <<[k |-> "Binary", op |-> op, lhs |-> lhs, rhs |-> r.n,
             dst |-> tg_fresh_variable(r.variable_counter)]>>,
          tg_fresh_variable(r.variable_counter))

TgShortCircuitEndFallsThrough(r, dst, label_short, label_end, through, short) ==
    Yield(r,
          <<TacCopy(TacConstant(through), dst),
            TacLabel(label_short), TacCopy(TacConstant(short), dst),
            TacLabel(label_end)>>,
          dst)

\* &&, ||: the instructions after the second operand
tg_short_circuit_end(r, dst, label_short, label_end, through, short) ==
    Yield(r,
          <<TacCopy(TacConstant(through), dst), TacJump(label_end),
            TacLabel(label_short), TacCopy(TacConstant(short), dst),
            TacLabel(label_end)>>,
          dst)

\* Assignment: r is the context after the right operand
tg_assignment(op, lhs_variable, r) ==
    Yield(r,
          IF op = "Assign" THEN <<TacCopy(r.n, lhs_variable)>>
          ELSE <<[k |-> "Binary", op |-> handle_assignment_operator(op),
                  lhs |-> TacVar(lhs_variable), rhs |-> r.n,
                  dst |-> lhs_variable]>>,
          lhs_variable)

\* FunctionCall: r is the context after the arguments, whose n holds them
tg_function_call(function, dst, r) ==
    Yield(r,
          <<[k |-> "FunctionCall", function |-> function, args |-> r.n,
             dst |-> dst]>>,
          dst)

\* ?: between the then-value, which r holds, and the else-value
tg_conditional_else(r, dst, label_else, label_end) ==
    Push(r, <<TacCopy(r.n, dst), TacJump(label_end), TacLabel(label_else)>>)

\* ?: after the else-value, which r holds
tg_conditional_end(r, dst, label_end) ==
    Yield(r, <<TacCopy(r.n, dst), TacLabel(label_end)>>, dst)

RECURSIVE tg_handle_expression(_, _)
RECURSIVE tg_handle_arguments(_, _, _, _)

\* the value of argument i, just handled in context r, pushed to the values
tg_push_argument(arguments, i, values, r) ==
    tg_handle_arguments(arguments, i + 1, Append(values, r.n), r)

tg_handle_arguments(arguments, i, values, ctx) ==
    IF i > Len(arguments) \/ ctx.err # "none" THEN [ctx EXCEPT !.n = values]
    ELSE tg_push_argument(arguments, i, values,
                          tg_handle_expression(arguments[i], ctx))

\* &&, ||
tg_short_circuit(expr, kind, suffix, through, short, ctx) ==
    tg_short_circuit_end(
        PushJumpIf(
            tg_handle_expression(expr.rhs,
                PushJumpIf(
                    tg_handle_expression(expr.lhs, Take(ctx, 1, 2)),
                    kind, tg_fresh_label(ctx.label_counter, <<suffix[1]>>))),
            kind, tg_fresh_label(ctx.label_counter, <<suffix[1]>>)),
        tg_fresh_variable(ctx.variable_counter),
        tg_fresh_label(ctx.label_counter, <<suffix[1]>>),
        tg_fresh_label(ctx.label_counter + 1, <<suffix[2]>>),
        through, short)

\* ?: from the then-value on: c is the context after the JumpIfZero
tg_conditional(expr, dst, label_else, label_end, c) ==
    tg_conditional_end(
        tg_handle_expression(expr.else_expr,
            tg_conditional_else(tg_handle_expression(expr.then_expr, c),
                                dst, label_else, label_end)),
        dst, label_end)

tg_handle_expression(expr, ctx) ==
    IF ctx.err # "none" THEN ctx ELSE
    CASE expr.k = "Constant" -> [ctx EXCEPT !.n = TacConstant(expr.c)]
      [] expr.k = "Variable" -> Yield(ctx, <<>>, expr.v)
      [] expr.k = "Unary" ->
           IF expr.op \in IncDec
           THEN IF expr.expr.k # "Variable" THEN Fail(ctx, "panic")
                ELSE tg_increment(expr.op, expr.expr.v, ctx)
           ELSE tg_unary(expr.op, tg_handle_expression(expr.expr, ctx))
      [] expr.k = "Binary" ->
           CASE expr.op = "LogicalAnd" ->
                  tg_short_circuit(expr, "JumpIfZero", <<"and_false", "and_end">>,
                                   1, 0, ctx)
             [] expr.op = "LogicalOr" ->
                  tg_short_circuit(expr, "JumpIfNotZero", <<"or_true", "or_end">>,
                                   0, 1, ctx)
             [] OTHER ->
                  tg_binary(expr.op, tg_handle_expression(expr.lhs, ctx).n,
                            tg_handle_expression(expr.rhs,
                                tg_handle_expression(expr.lhs, ctx)))
      [] expr.k = "Assignment" ->
           IF expr.lhs.k # "Variable" THEN Fail(ctx, "panic")
           ELSE tg_assignment(expr.op, expr.lhs.v,
                              tg_handle_expression(expr.rhs, ctx))
      [] expr.k = "Conditional" ->
           tg_conditional(expr,
               tg_fresh_variable(ctx.variable_counter),
               tg_fresh_label(ctx.label_counter, <<"cond_else">>),
               tg_fresh_label(ctx.label_counter + 1, <<"cond_end">>),
               PushJumpIf(
                   tg_handle_expression(expr.condition, Take(ctx, 1, 2)),
                   "JumpIfZero",
                   tg_fresh_label(ctx.label_counter, <<"cond_else">>)))
      [] expr.k = "FunctionCall" ->
           tg_function_call(expr.function,
               tg_fresh_variable(ctx.variable_counter),
               tg_handle_arguments(expr.arguments, 1, <<>>, Take(ctx, 1, 0)))

\* the Copy of the initializer's value, which r holds
tg_initialize(r, variable) == Push(r, <<TacCopy(r.n, variable)>>)

tg_handle_block_level_variable_declaration(vd, ctx) ==
    IF vd.storage_class # "None" \/ vd.initializer.k = "None" THEN ctx
    ELSE tg_initialize(tg_handle_expression(vd.initializer, ctx), vd.variable)

\* Return of the value r holds
tg_return(r) == Push(r, <<[k |-> "Return", v |-> r.n]>>)

RECURSIVE tg_handle_statement(_, _)
RECURSIVE tg_handle_block(_, _, _)

\* If with an else branch, from the then branch on
tg_if_else(statement, else_label, end_label, c) ==
    Push(tg_handle_statement(statement.else_branch,
             Push(tg_handle_statement(statement.then_branch, c),
                  <<TacJump(end_label), TacLabel(else_label)>>)),
         <<TacLabel(end_label)>>)

\* For, the condition: s is the context after Label(start_label)
tg_for_condition(statement, s) ==
    IF statement.condition.k = "None" THEN s
    ELSE PushJumpIf(tg_handle_expression(statement.condition, s),
                    "JumpIfZero", break_loop_label(statement.label))

TgForPostSkipped(statement, b) == b

\* For, the post expression: b is the context after Label(continue_label)
tg_for_post(statement, b) ==
    IF statement.post.k = "None" THEN b
    ELSE tg_handle_expression(statement.post, b)

\* For, from the Label(start_label) on: init is the context after the initializer
tg_for(statement, start_label, init) ==
    Push(tg_for_post(statement,
             Push(tg_handle_statement(statement.body,
                      tg_for_condition(statement,
                          Push(init, <<TacLabel(start_label)>>))),
                  <<TacLabel(continue_label(statement.label))>>)),
         <<TacJump(start_label), TacLabel(break_loop_label(statement.label))>>)

tg_handle_statement(statement, ctx) ==
    IF ctx.err # "none" THEN ctx ELSE
    CASE statement.k = "Return" ->
           tg_return(tg_handle_expression(statement.expr, ctx))
      [] statement.k = "Expression" -> tg_handle_expression(statement.expr, ctx)
      [] statement.k = "If" ->
           IF statement.else_branch.k # "None"
           THEN tg_if_else(statement,
                    tg_fresh_label(ctx.label_counter, <<"if_else">>),
                    tg_fresh_label(ctx.label_counter + 1, <<"if_end">>),
                    PushJumpIf(
                        tg_handle_expression(statement.condition, Take(ctx, 0, 2)),
                        "JumpIfZero",
                        tg_fresh_label(ctx.label_counter, <<"if_else">>)))
           ELSE Push(tg_handle_statement(statement.then_branch,
                         PushJumpIf(
                             tg_handle_expression(statement.condition,
                                                  Take(ctx, 0, 1)),
                             "JumpIfZero",
                             tg_fresh_label(ctx.label_counter, <<"if_end">>))),
                     <<TacLabel(tg_fresh_label(ctx.label_counter, <<"if_end">>))>>)
      [] statement.k = "Goto" -> Push(ctx, <<TacJump(statement.label)>>)
      [] statement.k = "Labeled" ->
           tg_handle_statement(statement.statement,
                               Push(ctx, <<TacLabel(statement.label)>>))
      [] statement.k = "Compound" -> tg_handle_block(statement.block.items, 1, ctx)
      [] statement.k = "Break" ->
           IF statement.label = <<>> THEN Fail(ctx, "panic")
           ELSE Push(ctx, <<TacJump(break_label(statement.label))>>)
      [] statement.k = "Continue" ->
           IF statement.label = <<>> THEN Fail(ctx, "panic")
           ELSE Push(ctx, <<TacJump(continue_label(statement.label))>>)
      [] statement.k = "While" ->
           IF statement.label = <<>> THEN Fail(ctx, "panic")
           ELSE Push(tg_handle_statement(statement.body,
                         PushJumpIf(
                             tg_handle_expression(statement.condition,
                                 Push(ctx,
                                      <<TacLabel(continue_label(statement.label))>>)),
                             "JumpIfZero", break_loop_label(statement.label))),
                     <<TacJump(continue_label(statement.label)),
                       TacLabel(break_loop_label(statement.label))>>)
      [] statement.k = "DoWhile" ->
           IF statement.label = <<>> THEN Fail(ctx, "panic")
           ELSE Push(PushJumpIf(
                         tg_handle_expression(statement.condition,
                             Push(tg_handle_statement(statement.body,
                                      Push(Take(ctx, 0, 1),
                                           <<TacLabel(tg_fresh_label(
                                                 ctx.label_counter,
                                                 <<"do_while_start">>))>>)),
                                  <<TacLabel(continue_label(statement.label))>>)),
                         "JumpIfNotZero",
                         tg_fresh_label(ctx.label_counter, <<"do_while_start">>)),
                     <<TacLabel(break_loop_label(statement.label))>>)
      [] statement.k = "For" ->
           IF statement.label = <<>> THEN Fail(ctx, "panic")
           ELSE tg_for(statement,
                    tg_fresh_label(ctx.label_counter, <<"for_start">>),
                    CASE statement.initializer.k = "None" -> Take(ctx, 0, 1)
                      [] statement.initializer.k = "VariableDeclaration" ->
                           tg_handle_block_level_variable_declaration(
                               statement.initializer, Take(ctx, 0, 1))
                      [] OTHER ->
                           tg_handle_expression(statement.initializer,
                                                Take(ctx, 0, 1)))
      [] statement.k = "Null" -> ctx
      [] statement.k \in {"Switch", "Case", "Default"} -> Fail(ctx, "panic")

tg_handle_block(items, i, ctx) ==
    IF i > Len(items) \/ ctx.err # "none" THEN ctx
    ELSE tg_handle_block(items, i + 1,
             CASE items[i].k = "VariableDeclaration" ->
                    tg_handle_block_level_variable_declaration(items[i], ctx)
               [] items[i].k = "FunctionDeclaration" -> ctx
               [] OTHER -> tg_handle_statement(items[i], ctx))

\* handle_top_level_function_declaration of a declaration with a body: r is
\* the context after handle_block, ctx.n the items pushed so far
tg_function_definition(fd, symbols, items, r) ==
    IF fd.function \notin DOMAIN symbols \/ symbols[fd.function].attrs.k # "Function"
    THEN Fail(r, "panic")
    ELSE [r EXCEPT !.n = Append(items,
            [k |-> "FunctionDefinition", function |-> fd.function,
             global |-> symbols[fd.function].attrs.global,
             parameters |-> fd.parameters,
             instructions |-> Append(r.ins, [k |-> "Return", v |-> TacConstant(0)])])]

\* handle_program, the first loop: ctx.n collects the items
RECURSIVE tg_handle_declarations(_, _, _, _)
tg_handle_declarations(declarations, symbols, i, ctx) ==
    IF i > Len(declarations) \/ ctx.err # "none" THEN ctx
    ELSE tg_handle_declarations(declarations, symbols, i + 1,
             IF declarations[i].k = "FunctionDeclaration"
                /\ declarations[i].body.k # "None"
             THEN tg_function_definition(declarations[i], symbols, ctx.n,
                      tg_handle_block(declarations[i].body.items, 1,
                                      [ctx EXCEPT !.ins = <<>>]))
             ELSE ctx)

\* The symbols the second loop of handle_program pushes an item for
EmittedStatics(symbols) ==
    { x \in DOMAIN symbols :
        /\ symbols[x].attrs.k = "Static"
        /\ symbols[x].attrs.initial.k \in {"Tentative", "Initial"} }

\* handle_program, the second loop, one symbol: Tentative is emitted as 0
StaticVariable(identifier, symbol) ==
    [k |-> "StaticVariable", variable |-> identifier,
     global |-> symbol.attrs.global,
     initial |-> IF symbol.attrs.initial.k = "Tentative" THEN 0
                 ELSE symbol.attrs.initial.v.v]

\* The orders `symbols.iter()` of the HashMap may take: std's HashMap seeds
\* its hasher per process, so the order of the keys is any order.  The
\* symbols that push no item are left out of the order: their place in it
\* changes nothing.
IterationOrders(symbols) ==
    { order \in [1..Cardinality(EmittedStatics(symbols)) -> EmittedStatics(symbols)] :
        \A i, j \in DOMAIN order : i # j => order[i] # order[j] }

\* handle_program: the items of the tacky::Program, or a panic
tg_handle_program(program, symbols, order) ==
    [tg_handle_declarations(program, symbols, 1,
         [n |-> <<>>, ins |-> <<>>, variable_counter |-> 0, label_counter |-> 0,
          err |-> "none"])
     EXCEPT !.n = @ \o [i \in DOMAIN order |->
                          StaticVariable(order[i], symbols[order[i]])]]

(***************************************************************************)
(* codegen::handle_program and emitter::emit_program on the whole program  *)
(***************************************************************************)

\* What replace_pseudo_registers asks the symbol table: the Static symbols
StaticSymbols(symbols) ==
    { x \in DOMAIN symbols : symbols[x].attrs.k = "Static" }

\* codegen.rs handle_program: the items in the order of the tacky::Program
cg_handle_program(items, symbols) ==
    [i \in DOMAIN items |->
       IF items[i].k = "FunctionDefinition"
       THEN [k |-> "FunctionDefinition", function |-> items[i].function,
             global |-> items[i].global,
             instructions |->
                 handle_function_definition(items[i], StaticSymbols(symbols))]
       ELSE items[i]]

\* emitter.rs prefix_identifier: the symbol of an identifier, "_" + identifier
prefix_identifier(identifier) == <<"_">> \o identifier

\* emitter.rs build_global_directive: the .globl line naming the identifier it
\* is given when the item is global, no line otherwise
build_global_directive(identifier, global) ==
    IF global THEN <<[directive |-> ".globl", symbol |-> identifier]>> ELSE <<>>

\* emit_function_definition: the .globl line is built from the prefixed
\* name, which is also the label; the instructions stand as themselves
emit_function_definition(fd) ==
    LET prefixed == prefix_identifier(fd.function)
    IN [k |-> "FunctionDefinition", function |-> fd.function,
        global |-> fd.global,
        global_directive |-> build_global_directive(prefixed, fd.global),
        section |-> ".text",
        identifier |-> prefixed,
        instructions |-> fd.instructions]

\* emit_static_variable: the label is the prefixed name, the .globl line is
\* built from sv.variable.identifier as it stands; then the section and the
\* directive of the variable
emit_static_variable(sv) ==
    LET identifier == prefix_identifier(sv.variable)
    IN [k |-> "static", global |-> sv.global,
        global_directive |-> build_global_directive(sv.variable, sv.global),
        section |-> IF sv.initial = 0 THEN ".bss" ELSE ".data",
        identifier |-> identifier,
        directive |-> IF sv.initial = 0 THEN <<".zero", 4>>
                      ELSE <<".long", sv.initial>>]

\* emit_program: the texts of the items in the order of the asm::Program,
\* joined
emit_program(items) ==
    [i \in DOMAIN items |->
       IF items[i].k = "StaticVariable" THEN emit_static_variable(items[i])
       ELSE emit_function_definition(items[i])]

(***************************************************************************)
(* The programs the passes are run on: what the parser hands to            *)
(* semantic::analyze.  Every program is a file-scope prefix followed by    *)
(* the definition of main, whose body takes up to MaxItems block items.    *)
(***************************************************************************)

MaxItems == 2

Return(e) == [k |-> "Return", expr |-> e]

ExpressionStatement(e) == [k |-> "Expression", expr |-> e]

If(c, t, e) == [k |-> "If", condition |-> c, then_branch |-> t, else_branch |-> e]

Compound(items) == [k |-> "Compound", block |-> Block(items)]

Break == [k |-> "Break", label |-> <<>>]

Continue == [k |-> "Continue", label |-> <<>>]

\* int x = 1;  static int s = 2;  extern int g;  int f(int a, int b);
\* { int x = 2; x = x + g; }
\* for (int x = 0; x < 3; x = x + 1) if (x) break; else continue;
\* while (x) { x = x - 1; continue; }      do x = s; while (x && g);
\* goto L;   L: x = 3;   break;   return x ? f(x, 1) : !x;   g = g || 1;
ItemPool ==
    LET x == Variable("x")
        g == Variable("g")
    IN { VariableDeclaration("x", Constant(1), "None"),
         VariableDeclaration("s", Constant(2), "Static"),
         VariableDeclaration("g", NoneNode, "Extern"),
         FunctionDeclaration("f", <<"a", "b">>, NoneNode, "None"),
         Compound(<<VariableDeclaration("x", Constant(2), "None"),
                    ExpressionStatement(Assignment(x, Binary("Add", x, g)))>>),
         [k |-> "For",
          initializer |-> VariableDeclaration("x", Constant(0), "None"),
          condition |-> Binary("LessThan", x, Constant(3)),
          post |-> Assignment(x, Binary("Add", x, Constant(1))),
          body |-> If(x, Break, Continue), label |-> <<>>],
         [k |-> "While", condition |-> x,
          body |-> Compound(<<ExpressionStatement(
                                 Assignment(x, Binary("Subtract", x, Constant(1)))),
                              Continue>>),
          label |-> <<>>],
         [k |-> "DoWhile",
          body |-> ExpressionStatement(Assignment(x, Variable("s"))),
          condition |-> Binary("LogicalAnd", x, g), label |-> <<>>],
         [k |-> "Goto", label |-> <<"L">>],
         [k |-> "Labeled", label |-> <<"L">>,
          statement |-> ExpressionStatement(Assignment(x, Constant(3)))],
         Break,
         Return(Conditional(x, FunctionCall("f", <<x, Constant(1)>>),
                            Unary("Not", x))),
         ExpressionStatement(Assignment(g, Binary("LogicalOr", g, Constant(1)))) }

\* (nothing)      int g = 5;      int g; static int h = 1; int f(int a, int b);
\* extern int g; int g = 3; int h; int f(int a, int b) { goto L; L: return a; }
FileScopePrefixes ==
    { <<>>,
      <<VariableDeclaration("g", Constant(5), "None")>>,
      <<VariableDeclaration("g", NoneNode, "None"),
        VariableDeclaration("h", Constant(1), "Static"),
        FunctionDeclaration("f", <<"a", "b">>, NoneNode, "None")>>,
      <<VariableDeclaration("g", NoneNode, "Extern"),
        VariableDeclaration("g", Constant(3), "None"),
        VariableDeclaration("h", NoneNode, "None"),
        FunctionDeclaration("f", <<"a", "b">>,
            Block(<<[k |-> "Goto", label |-> <<"L">>],
                    [k |-> "Labeled", label |-> <<"L">>,
                     statement |-> Return(Variable("a"))]>>), "None")>> }

Programs ==
    { prefix \o <<FunctionDeclaration("main", ps, Block(items), "None")>> :
        prefix \in FileScopePrefixes,
        ps \in {<<>>, <<"x">>},
        items \in UNION { [1..n -> ItemPool] : n \in 0..MaxItems } }

(***************************************************************************)
(* Programs of two functions, f and main, whose bodies hold labels, gotos  *)
(* and loops: the same label names and the same kinds of loop in both.     *)
(***************************************************************************)

MaxLabelItems == 2

Goto(l) == [k |-> "Goto", label |-> <<l>>]

Labeled(l, statement) == [k |-> "Labeled", label |-> <<l>>, statement |-> statement]

\* goto L;   L: ;   goto M;   M: return 0;   while (1) { L: break; }
\* if (1) goto L;   for (; 0;) continue;   do break; while (0);   1 && 0;
\* while (0) continue;
LabelPool ==
    { Goto("L"),
      Labeled("L", [k |-> "Null"]),
      Goto("M"),
      Labeled("M", Return(Constant(0))),
      [k |-> "While", condition |-> Constant(1),
       body |-> Compound(<<Labeled("L", Break)>>), label |-> <<>>],
      If(Constant(1), Goto("L"), NoneNode),
      [k |-> "For", initializer |-> NoneNode, condition |-> Constant(0),
       post |-> NoneNode, body |-> Continue, label |-> <<>>],
      [k |-> "DoWhile", body |-> Break, condition |-> Constant(0), label |-> <<>>],
      ExpressionStatement(Binary("LogicalAnd", Constant(1), Constant(0))),
      [k |-> "While", condition |-> Constant(0), body |-> Continue,
       label |-> <<>>] }

\* The bodies of f: one item of the pool, a label with its goto, or a label
\* and a loop
LabelBodiesOfF ==
    { <<>> } \cup { <<item>> : item \in LabelPool }
    \cup { <<Goto("L"), Labeled("L", [k |-> "Null"])>>,
           <<Labeled("L", [k |-> "Null"]), Goto("L")>>,
           <<Labeled("L", [k |-> "Null"]),
             [k |-> "While", condition |-> Constant(0), body |-> Continue,
              label |-> <<>>]>> }

LabelPrograms ==
    { <<FunctionDeclaration("f", <<>>, Block(fitems), "None"),
        FunctionDeclaration("main", <<>>, Block(items), "None")>> :
        fitems \in LabelBodiesOfF,
        items \in UNION { [1..n -> LabelPool] : n \in 0..MaxLabelItems } }

LabelStart ==
    /\ source \in LabelPrograms
    /\ ast = source
    /\ ppc = "identifier_resolution"
    /\ semaResult = [kind |-> "none"]
    /\ symbolTable = <<>>
    /\ tacky = <<>>
    /\ asmProgram = <<>>
    /\ asmText = <<>>
    /\ run = 1
    /\ firstText = <<>>

(***************************************************************************)
(* Function bodies with switch statements.  The parser builds Switch, Case *)
(* and Default; label resolution meets todo!() on them, so the bodies are  *)
(* given to the two passes that handle them, loop/switch labeling and      *)
(* switch-case collection.                                                 *)
(***************************************************************************)

MaxNest == 4

While(c, body) == [k |-> "While", condition |-> c, body |-> body, label |-> <<>>]

Switch(e, body) ==
    [k |-> "Switch", expression |-> e, body |-> body, cases |-> NoneNode,
     label |-> <<>>]

Case(e, body) == [k |-> "Case", expression |-> e, body |-> body, label |-> <<>>]

Default(body) == [k |-> "Default", body |-> body, label |-> <<>>]

\* while (x) s    switch (x) s    case 1: s    case 1L: s    default: s
Wrappers == {"While", "Switch", "Case1", "Case1L", "Default"}

Wrap(w, s) ==
    CASE w = "While"   -> While(Variable("x"), s)
      [] w = "Switch"  -> Switch(Variable("x"), s)
      [] w = "Case1"   -> Case(Constant(1), s)
      [] w = "Case1L"  -> Case(ConstantLong(1), s)
      [] w = "Default" -> Default(s)

\* break;   continue;   return 0;   under at most n wrappers
RECURSIVE Nested(_)
Nested(n) ==
    {Break, Continue, Return(Constant(0))}
        \cup (IF n = 0 THEN {}
              ELSE { Wrap(w, s) : w \in Wrappers, s \in Nested(n - 1) })

\* one statement, or two short ones in the body's block or in the block of a
\* loop or switch
SwitchBodies ==
    { <<s>> : s \in Nested(MaxNest) }
        \cup { <<a, b>> : a \in Nested(1), b \in Nested(1) }
        \cup { <<Wrap(w, Compound(<<a, b>>))>> :
                  w \in {"While", "Switch"}, a \in Nested(1), b \in Nested(1) }

SwitchPrograms ==
    { <<FunctionDeclaration("main", <<>>, Block(items), "None")>> :
        items \in SwitchBodies }

SwitchStart ==
    /\ source \in SwitchPrograms
    /\ ast = source
    /\ ppc = "loop_switch_labeling"
    /\ semaResult = [kind |-> "none"]
    /\ symbolTable = <<>>
    /\ tacky = <<>>
    /\ asmProgram = <<>>
    /\ asmText = <<>>
    /\ run = 1
    /\ firstText = <<>>

(***************************************************************************)
(* Programs that declare one identifier in several scopes and with and     *)
(* without linkage, for identifier resolution.                             *)
(***************************************************************************)

MaxDecls == 3

\* int x = 1;   extern int x;   static int x = 2;   int x(int a);   x = 3;
\* { int x = 1; x = 3; }     { extern int x; int x = 1; }
\* for (int x = 0; x < 3; ) { int x = 1; }     for (int x = 0; ; ) x = 3;
ScopePool ==
    LET x == Variable("x")
        local == VariableDeclaration("x", Constant(1), "None")
        extern == VariableDeclaration("x", NoneNode, "Extern")
        use == ExpressionStatement(Assignment(x, Constant(3)))
    IN { local, extern,
         VariableDeclaration("x", Constant(2), "Static"),
         FunctionDeclaration("x", <<"a">>, NoneNode, "None"),
         use,
         Compound(<<local, use>>),
         Compound(<<extern, local>>),
         [k |-> "For", initializer |-> VariableDeclaration("x", Constant(0), "None"),
          condition |-> Binary("LessThan", x, Constant(3)), post |-> NoneNode,
          body |-> Compound(<<local>>), label |-> <<>>],
         [k |-> "For", initializer |-> VariableDeclaration("x", Constant(0), "None"),
          condition |-> NoneNode, post |-> NoneNode, body |-> use, label |-> <<>>] }

\* (nothing) or int x; at file scope, then int main(void), int main(int x) or
\* int main(int x, int x) with up to MaxDecls items of the pool as body
ScopePrograms ==
    { prefix \o <<FunctionDeclaration("main", ps, Block(items), "None")>> :
        prefix \in {<<>>, <<VariableDeclaration("x", NoneNode, "None")>>},
        ps \in {<<>>, <<"x">>, <<"x", "x">>},
        items \in UNION { [1..n -> ScopePool] : n \in 0..MaxDecls } }

ResolveStart ==
    /\ source \in ScopePrograms
    /\ ast = source
    /\ ppc = "identifier_resolution"
    /\ semaResult = [kind |-> "none"]
    /\ symbolTable = <<>>
    /\ tacky = <<>>
    /\ asmProgram = <<>>
    /\ asmText = <<>>
    /\ run = 1
    /\ firstText = <<>>

SemaStart ==
    /\ source \in Programs
    /\ ast = source
    /\ ppc = "identifier_resolution"
    /\ semaResult = [kind |-> "none"]
    /\ symbolTable = <<>>
    /\ tacky = <<>>
    /\ asmProgram = <<>>
    /\ asmText = <<>>
    /\ run = 1
    /\ firstText = <<>>

\* What semantic::analyze and compile do with the Result of a pass: Ok feeds
\* the next pass, Err ends the chain.
PassDone(next, r) ==
    IF r.kind = "ok"
    THEN /\ ast' = r.program
         /\ ppc' = next
         /\ UNCHANGED semaResult
    ELSE /\ semaResult' = r
         /\ ppc' = "done"
         /\ UNCHANGED ast

identifier_resolution ==
    /\ ppc = "identifier_resolution"
    /\ PassDone("label_resolution", IdentifierResolver_analyze(ast))
    /\ UNCHANGED <<symbolTable, backVars, runVars, notSema>>

\* IdentifierResolver::analyze on the program it returned: source keeps the
\* output of the first run, ast takes the output of the second
identifier_resolution_again ==
    /\ ppc = "label_resolution"
    /\ run = 1
    /\ run' = 2
    /\ source' = ast
    /\ PassDone("resolved_again", IdentifierResolver_analyze(ast))
    /\ UNCHANGED <<symbolTable, backVars, firstText, notSema>>

label_resolution ==
    /\ ppc = "label_resolution"
    /\ PassDone("loop_switch_labeling", LabelResolver_analyze(ast))
    /\ UNCHANGED <<symbolTable, backVars, runVars, notSema>>

loop_switch_labeling ==
    /\ ppc = "loop_switch_labeling"
    /\ PassDone("switch_case_collection", LoopSwitchLabeler_analyze(ast))
    /\ UNCHANGED <<symbolTable, backVars, runVars, notSema>>

switch_case_collection ==
    /\ ppc = "switch_case_collection"
    /\ PassDone("type_check", SwitchCaseCollector_analyze(ast))
    /\ UNCHANGED <<symbolTable, backVars, runVars, notSema>>

\* TypeChecker::analyze: Ok((analyzed, tc.symbols)) hands both on
type_check ==
    /\ ppc = "type_check"
    /\ PassDone("tackygen", PassResult(TypeChecker_analyze(ast)))
    /\ symbolTable' = IF TypeChecker_analyze(ast).err = "none"
                      THEN TypeChecker_analyze(ast).symbols ELSE symbolTable
    /\ UNCHANGED <<backVars, runVars, notSema>>

\* What compile does with the tacky::Program: a panic of the generator ends
\* the run
TackyDone(r) ==
    IF r.err = "none"
    THEN /\ tacky' = r.n
         /\ ppc' = "codegen"
         /\ UNCHANGED semaResult
    ELSE /\ semaResult' = [kind |-> "panic"]
         /\ ppc' = "done"
         /\ UNCHANGED tacky

\* tackygen::generate: the HashMap of the symbol table iterates in some order
tackygen ==
    /\ ppc = "tackygen"
    /\ \E order \in IterationOrders(symbolTable) :
          TackyDone(tg_handle_program(ast, symbolTable, order))
    /\ UNCHANGED <<ast, symbolTable, asmProgram, asmText, runVars, notSema>>

\* codegen::generate
codegen ==
    /\ ppc = "codegen"
    /\ asmProgram' = cg_handle_program(tacky, symbolTable)
    /\ ppc' = "emit"
    /\ UNCHANGED <<ast, semaResult, symbolTable, tacky, asmText, runVars, notSema>>

\* emitter::emit
emit ==
    /\ ppc = "emit"
    /\ asmText' = emit_program(asmProgram)
    /\ ppc' = "emitted"
    /\ UNCHANGED <<ast, semaResult, symbolTable, tacky, asmProgram, runVars, notSema>>

\* The compiler is run on the same input once more: a new process, which
\* starts from the parsed program with empty tables
run_again ==
    /\ ppc = "emitted"
    /\ run = 1
    /\ run' = 2
    /\ firstText' = asmText
    /\ ast' = source
    /\ ppc' = "identifier_resolution"
    /\ symbolTable' = <<>>
    /\ tacky' = <<>>
    /\ asmProgram' = <<>>
    /\ asmText' = <<>>
    /\ UNCHANGED <<source, semaResult, notSema>>


(***************************************************************************)
(* compiler/parser.rs: expressions                                         *)
(*                                                                         *)
(* A token is a record whose field t names the variant of Token; an        *)
(* Identifier holds its name in s and a constant its digits in value.  A   *)
(* parse function takes the deque and returns [n, rest, err]: the node,    *)
(* the deque it leaves, and "none" or the message of the Err.              *)
(***************************************************************************)

Tok(t) == [t |-> t]

IdentifierToken(x) == [t |-> "Identifier", s |-> x]

ConstantIntToken(ds) == [t |-> "ConstantInt", value |-> ds]

ConstantLongToken(ds) == [t |-> "ConstantLong", value |-> ds]

POk(n, ts) == [n |-> n, rest |-> ts, err |-> "none"]

PErr(msg, ts) == [n |-> NoneNode, rest |-> ts, err |-> msg]

\* tokens.front() is Some(Token::t)
FrontIs(ts, t) == ts # <<>> /\ Head(ts).t = t

Cast(ty, e) == [k |-> "Cast", target_ty |-> ty, expr |-> e, ty |-> NoneNode]

AssignmentOp(op, l, r) ==
    [k |-> "Assignment", op |-> op, lhs |-> l, rhs |-> r, ty |-> NoneNode]

matches_type_specifier(ts) == FrontIs(ts, "IntKeyword") \/ FrontIs(ts, "LongKeyword")

\* parse_type: the while loop that pops the specifiers
RECURSIVE TypeSpecifiers(_)
TypeSpecifiers(ts) ==
    IF matches_type_specifier(ts)
    THEN <<Head(ts).t>> \o TypeSpecifiers(Tail(ts))
    ELSE <<>>

parse_type_from_specifiers(specifiers) ==
    CASE specifiers = <<"IntKeyword">> -> [ty |-> TypeInt, err |-> "none"]
      [] specifiers \in {<<"IntKeyword", "LongKeyword">>,
                         <<"LongKeyword", "IntKeyword">>, <<"LongKeyword">>} ->
           [ty |-> TypeLong, err |-> "none"]
      [] specifiers = <<>> -> [ty |-> NoneNode, err |-> "Expected type specifier"]
      [] OTHER -> [ty |-> NoneNode, err |-> "Invalid type specifier"]

parse_type(ts) ==
    LET specifiers == TypeSpecifiers(ts)
        r == parse_type_from_specifiers(specifiers)
    IN [n |-> r.ty, rest |-> Drop(ts, Len(specifiers)), err |-> r.err]

AssignmentTokens ==
    {"Equal", "PlusEqual", "MinusEqual", "AsteriskEqual", "SlashEqual",
     "PercentEqual", "AmpersandEqual", "PipeEqual", "CaretEqual",
     "LessLessEqual", "GreaterGreaterEqual"}

\* parse_expression: the match that gives `precedence`; 0 stands for the
\* arm that breaks out of the loop
Precedence(t) ==
    CASE t \in AssignmentTokens -> 1
      [] t = "Question" -> 2
      [] t = "PipePipe" -> 3
      [] t = "AmpersandAmpersand" -> 4
      [] t = "Pipe" -> 5
      [] t = "Caret" -> 6
      [] t = "Ampersand" -> 7
      [] t \in {"EqualEqual", "ExclamationEqual"} -> 8
      [] t \in {"Less", "LessEqual", "Greater", "GreaterEqual"} -> 9
      [] t \in {"LessLess", "GreaterGreater"} -> 10
      [] t \in {"Plus", "Minus"} -> 11
      [] t \in {"Asterisk", "Slash", "Percent"} -> 12
      [] OTHER -> 0

parse_unary_prefix_operator(t) ==
    CASE t = "Tilde" -> "Complement"
      [] t = "Minus" -> "Negate"
      [] t = "Exclamation" -> "Not"
      [] t = "PlusPlus" -> "PrefixIncrement"
      [] t = "MinusMinus" -> "PrefixDecrement"

parse_unary_postfix_operator(t) ==
    CASE t = "PlusPlus" -> "PostfixIncrement"
      [] t = "MinusMinus" -> "PostfixDecrement"

parse_binary_operator(t) ==
    CASE t = "Plus" -> "Add"
      [] t = "Minus" -> "Subtract"
      [] t = "Asterisk" -> "Multiply"
      [] t = "Slash" -> "Divide"
      [] t = "Percent" -> "Remainder"
      [] t = "Ampersand" -> "BitwiseAnd"
      [] t = "Pipe" -> "BitwiseOr"
      [] t = "Caret" -> "BitwiseXor"
      [] t = "LessLess" -> "ShiftLeft"
      [] t = "GreaterGreater" -> "ShiftRight"
      [] t = "AmpersandAmpersand" -> "LogicalAnd"
      [] t = "PipePipe" -> "LogicalOr"
      [] t = "EqualEqual" -> "Equal"
      [] t = "ExclamationEqual" -> "NotEqual"
      [] t = "Less" -> "LessThan"
      [] t = "LessEqual" -> "LessOrEqual"
      [] t = "Greater" -> "GreaterThan"
      [] t = "GreaterEqual" -> "GreaterOrEqual"

parse_assignment_operator(t) ==
    CASE t = "Equal" -> "Assign"
      [] t = "PlusEqual" -> "AddAssign"
      [] t = "MinusEqual" -> "SubtractAssign"
      [] t = "AsteriskEqual" -> "MultiplyAssign"
      [] t = "SlashEqual" -> "DivideAssign"
      [] t = "PercentEqual" -> "RemainderAssign"
      [] t = "AmpersandEqual" -> "BitwiseAndAssign"
      [] t = "PipeEqual" -> "BitwiseOrAssign"
      [] t = "CaretEqual" -> "BitwiseXorAssign"
      [] t = "LessLessEqual" -> "ShiftLeftAssign"
      [] t = "GreaterGreaterEqual" -> "ShiftRightAssign"

BinaryRightSamePrecedence(precedence) == precedence

\* parse_expression(tokens, precedence + 1) of the binary arm
BinaryRightPrecedence(precedence) == precedence + 1

\* i32::MAX, digit by digit
I32MaxDigits == <<2, 1, 4, 7, 4, 8, 3, 6, 4, 7>>

\* value_i64.try_into() of an i32 fails
ExceedsI32(ms) ==
    LET ds == StripZeros(ms) IN
    \/ Len(ds) > Len(I32MaxDigits)
    \/ /\ Len(ds) = Len(I32MaxDigits)
       /\ \E k \in 1..Len(ds) :
            /\ \A j \in 1..(k - 1) : DigitValue(ds[j]) = I32MaxDigits[j]
            /\ DigitValue(ds[k]) > I32MaxDigits[k]

\* value.parse() of digits that fit; the constants of the inputs are below 2^31
RECURSIVE DigitsValue(_)
DigitsValue(ds) ==
    IF ds = <<>> THEN 0
    ELSE 10 * DigitsValue(SubSeq(ds, 1, Len(ds) - 1)) + DigitValue(ds[Len(ds)])

RECURSIVE parse_expression(_, _)
RECURSIVE parse_expression_loop(_, _, _)
RECURSIVE parse_factor(_)
RECURSIVE parse_arguments(_, _)

\* parse_factor: the while loop of the postfix operators
RECURSIVE parse_postfix(_, _)
parse_postfix(factor, ts) ==
    IF FrontIs(ts, "PlusPlus") \/ FrontIs(ts, "MinusMinus")
    THEN parse_postfix(Unary(parse_unary_postfix_operator(Head(ts).t), factor),
                       Tail(ts))
    ELSE POk(factor, ts)

\* parse_factor: the loop that pushes the arguments of a call; n holds them
parse_arguments(arguments, ts) ==
    LET a == parse_expression(ts, 0) IN
    IF a.err # "none" THEN a
    ELSE IF FrontIs(a.rest, "Comma")
    THEN parse_arguments(Append(arguments, a.n), Tail(a.rest))
    ELSE POk(Append(arguments, a.n), a.rest)

\* parse_factor: the match on tokens.front(), before the postfix loop
parse_factor_match(ts) ==
    IF ts = <<>> THEN PErr("Expected factor", ts)
    ELSE
    LET t == Head(ts).t
        after == Tail(ts)
    IN
    CASE t = "OpenParen" ->
           IF matches_type_specifier(after)
           THEN LET ty == parse_type(after) IN
                IF ty.err # "none" THEN ty
                ELSE IF ~FrontIs(ty.rest, "CloseParen")
                THEN PErr("Expected closing parenthesis", ty.rest)
                ELSE LET expr == parse_expression(Tail(ty.rest), 0) IN
                     IF expr.err # "none" THEN expr
                     ELSE POk(Cast(ty.n, expr.n), expr.rest)
           ELSE LET inner == parse_expression(after, 0) IN
                IF inner.err # "none" THEN inner
                ELSE IF ~FrontIs(inner.rest, "CloseParen")
                THEN PErr("Expected close parenthesis", inner.rest)
                ELSE POk(inner.n, Tail(inner.rest))
      [] t = "ConstantInt" ->
           IF ParseOverflows(Head(ts).value) THEN PErr("Invalid integer", after)
           ELSE IF ExceedsI32(Head(ts).value)
           THEN POk(ConstantLong(DigitsValue(Head(ts).value)), after)
           ELSE POk(Constant(DigitsValue(Head(ts).value)), after)
      [] t = "ConstantLong" ->
           IF ParseOverflows(Head(ts).value) THEN PErr("Invalid integer", after)
           ELSE POk(ConstantLong(DigitsValue(Head(ts).value)), after)
      [] t = "Identifier" ->
           IF FrontIs(after, "OpenParen")
           THEN LET arguments ==
                      IF FrontIs(Tail(after), "CloseParen")
                      THEN POk(<<>>, Tail(after))
                      ELSE parse_arguments(<<>>, Tail(after))
                IN IF arguments.err # "none" THEN arguments
                   ELSE IF ~FrontIs(arguments.rest, "CloseParen")
                   THEN PErr("Expected close parenthesis", arguments.rest)
                   ELSE POk(FunctionCall(Head(ts).s, arguments.n),
                            Tail(arguments.rest))
           ELSE POk(Variable(Head(ts).s), after)
      [] t \in {"Tilde", "Minus", "Exclamation", "PlusPlus", "MinusMinus"} ->
           LET inner == parse_factor(after) IN
           IF inner.err # "none" THEN inner
           ELSE POk(Unary(parse_unary_prefix_operator(t), inner.n), inner.rest)
      [] OTHER -> PErr("Expected factor", ts)

parse_factor(ts) ==
    LET factor == parse_factor_match(ts) IN
    IF factor.err # "none" THEN factor
    ELSE parse_postfix(factor.n, factor.rest)

\* parse_expression: the while loop, `left` so far
parse_expression_loop(left, ts, min_precedence) ==
    IF ts = <<>> THEN POk(left, ts)
    ELSE
    LET t == Head(ts).t
        precedence == Precedence(t)
    IN
    IF precedence = 0 \/ precedence < min_precedence THEN POk(left, ts)
    ELSE IF t \in AssignmentTokens
    THEN LET right == parse_expression(Tail(ts), precedence) IN
         IF right.err # "none" THEN right
         ELSE parse_expression_loop(
                  AssignmentOp(parse_assignment_operator(t), left, right.n),
                  right.rest, min_precedence)
    ELSE IF t = "Question"
    THEN LET then_expr == parse_expression(Tail(ts), 0) IN
         IF then_expr.err # "none" THEN then_expr
         ELSE IF ~FrontIs(then_expr.rest, "Colon")
         THEN PErr("Expected colon", then_expr.rest)
         ELSE LET else_expr == parse_expression(Tail(then_expr.rest), precedence)
              IN IF else_expr.err # "none" THEN else_expr
                 ELSE parse_expression_loop(
                          Conditional(left, then_expr.n, else_expr.n),
                          else_expr.rest, min_precedence)
    ELSE LET right ==
               parse_expression(Tail(ts), BinaryRightPrecedence(precedence))
         IN IF right.err # "none" THEN right
            ELSE parse_expression_loop(
                     Binary(parse_binary_operator(t), left, right.n),
                     right.rest, min_precedence)

parse_expression(ts, min_precedence) ==
    LET left == parse_factor(ts) IN
    IF left.err # "none" THEN left
    ELSE parse_expression_loop(left.n, left.rest, min_precedence)

(***************************************************************************)
(* parse_expression on an operand followed by up to MaxOps operators of    *)
(* the precedence table, each with its operand, and on shorter chains      *)
(* after a cast or a prefix operator.                                      *)
(***************************************************************************)

MaxOps == 2

\* The operators that follow a cast or a prefix operator and its operand
MaxPrefixedOps == 1

\* The operators of the precedence table, as tokens
TableOps ==
    AssignmentTokens \cup
    {"Question", "PipePipe", "AmpersandAmpersand", "Pipe", "Caret", "Ampersand",
     "EqualEqual", "ExclamationEqual", "Less", "LessEqual", "Greater",
     "GreaterEqual", "LessLess", "GreaterGreater", "Plus", "Minus", "Asterisk",
     "Slash", "Percent"}

Operands == <<"a", "b", "c", "d">>

\* op, or `? x :` for the conditional operator
OpTokens(op) ==
    IF op = "Question"
    THEN <<Tok("Question"), IdentifierToken("x"), Tok("Colon")>>
    ELSE <<Tok(op)>>

\* a op1 b op2 c ...
RECURSIVE ChainFrom(_, _)
ChainFrom(ops, i) ==
    IF i > Len(ops) THEN <<>>
    ELSE OpTokens(ops[i]) \o <<IdentifierToken(Operands[i + 1])>>
         \o ChainFrom(ops, i + 1)

Chain(ops) == <<IdentifierToken(Operands[1])>> \o ChainFrom(ops, 1)

CastPrefix(specifier) == <<Tok("OpenParen"), Tok(specifier), Tok("CloseParen")>>

ChainPrefixes ==
    {<<>>, CastPrefix("LongKeyword"), CastPrefix("IntKeyword"), <<Tok("Minus")>>}

\* f(a, 1) ++ * (2147483648 + b) and what else the factors take, and what they
\* reject
FactorInputs ==
    { <<IdentifierToken("f"), Tok("OpenParen"), IdentifierToken("a"),
        Tok("Comma"), ConstantIntToken(<<"1">>), Tok("CloseParen")>>,
      <<IdentifierToken("f"), Tok("OpenParen"), Tok("CloseParen")>>,
      <<Tok("OpenParen"), IdentifierToken("a"), Tok("Plus"),
        IdentifierToken("b"), Tok("CloseParen"), Tok("Asterisk"),
        IdentifierToken("c")>>,
      <<IdentifierToken("a"), Tok("PlusPlus"), Tok("MinusMinus")>>,
      <<Tok("Exclamation"), IdentifierToken("a"), Tok("PlusPlus")>>,
      <<ConstantIntToken(<<"4", "2">>), Tok("Plus"),
        ConstantLongToken(<<"1">>)>>,
      <<ConstantIntToken(LongDigits)>>,
      <<Tok("OpenParen"), Tok("LongKeyword"), Tok("LongKeyword"),
        Tok("CloseParen"), IdentifierToken("a")>>,
      <<Tok("OpenParen"), Tok("IntKeyword"), IdentifierToken("a")>>,
      <<Tok("OpenParen"), IdentifierToken("a")>>,
      <<IdentifierToken("a"), Tok("Question"), IdentifierToken("b")>>,
      <<IdentifierToken("a"), Tok("Plus")>>,
      <<IdentifierToken("a"), Tok("Semicolon")>>,
      <<>> }

\* The sequences of at most n operators of the table
OpSeqs(n) == UNION { [1..m -> TableOps] : m \in 0..n }

ExpressionInputs ==
    { Chain(ops) : ops \in OpSeqs(MaxOps) }
    \cup { prefix \o Chain(ops) :
             prefix \in ChainPrefixes, ops \in OpSeqs(MaxPrefixedOps) }
    \cup FactorInputs

ParseStart ==
    /\ parseInput \in ExpressionInputs
    /\ parseTokens = parseInput
    /\ parseResult = [kind |-> "running"]

\* parse_expression(tokens, 0)
parse_expression_call ==
    /\ parseResult.kind = "running"
    /\ LET r == parse_expression(parseTokens, 0) IN
       /\ parseTokens' = r.rest
       /\ parseResult' = IF r.err = "none"
                         THEN [kind |-> "Ok", expr |-> r.n]
                         ELSE [kind |-> "Err", msg |-> r.err]
    /\ UNCHANGED <<parseInput, notParse>>

(***************************************************************************)
(* compiler/parser.rs: the for statement                                   *)
(*                                                                         *)
(* parse_statement is given for statements whose parts are expressions or  *)
(* declarations and whose body is a null, return, expression or for        *)
(* statement; the arms of the other keywords are not taken on these.       *)
(***************************************************************************)

\* tokens.pop_front(): the deque after the pop, whatever was popped
PopFront(ts) == IF ts = <<>> THEN <<>> ELSE Tail(ts)

matches_start_of_declaration(ts) ==
    \/ FrontIs(ts, "StaticKeyword")
    \/ FrontIs(ts, "ExternKeyword")
    \/ matches_type_specifier(ts)

\* parse_type_and_storage_class: the loop that pops specifiers and storage
\* classes
RECURSIVE DeclarationSpecifiers(_)
DeclarationSpecifiers(ts) ==
    IF matches_start_of_declaration(ts)
    THEN <<Head(ts).t>> \o DeclarationSpecifiers(Tail(ts))
    ELSE <<>>

parse_type_and_storage_class(ts) ==
    LET popped == DeclarationSpecifiers(ts)
        type_tokens ==
            SelectSeq(popped, LAMBDA t : t \in {"IntKeyword", "LongKeyword"})
        storage_classes ==
            SelectSeq(popped, LAMBDA t : t \in {"StaticKeyword", "ExternKeyword"})
        r == parse_type_from_specifiers(type_tokens)
        after == Drop(ts, Len(popped))
    IN IF r.err # "none"
       THEN [ty |-> NoneNode, storage_class |-> "None", rest |-> after, err |-> r.err]
       ELSE IF Len(storage_classes) > 1
       THEN [ty |-> NoneNode, storage_class |-> "None", rest |-> after,
             err |-> "Expected at most one storage class"]
       ELSE [ty |-> r.ty,
             storage_class |->
                 IF storage_classes = <<>> THEN "None"
                 ELSE IF storage_classes[1] = "StaticKeyword" THEN "Static"
                 ELSE "Extern",
             rest |-> after, err |-> "none"]

\* parse_declaration, the function branch after the open parenthesis: of
\* parse_parameters the void arm is given, and the body is None
FunctionPrototype(spec, name, t3, t4, t5) ==
    IF ~FrontIs(t3, "VoidKeyword") /\ ~matches_type_specifier(t3)
    THEN PErr("Expected type specifier", t3)
    ELSE IF ~FrontIs(t4, "CloseParen")
    THEN PErr("Expected close parenthesis", t5)
    ELSE IF FrontIs(t5, "Semicolon")
    THEN POk([k |-> "FunctionDeclaration", function |-> name,
              parameters |-> <<>>, body |-> NoneNode,
              ty |-> [k |-> "Function", return_type |-> spec.ty,
                      parameters |-> <<>>],
              storage_class |-> spec.storage_class], Tail(t5))
    ELSE PErr("Expected open brace", PopFront(t5))

\* parse_declaration, the variable branch after the optional initializer
VariableDeclarationOf(spec, name, init) ==
    IF init.err # "none" THEN init
    ELSE IF ~FrontIs(init.rest, "Semicolon")
    THEN PErr("Expected semicolon", PopFront(init.rest))
    ELSE POk([k |-> "VariableDeclaration", variable |-> name,
              initializer |-> init.n, ty |-> spec.ty,
              storage_class |-> spec.storage_class], Tail(init.rest))

\* parse_declaration after parse_type_and_storage_class: t1 starts at the
\* identifier and t2 after it
DeclarationAfter(spec, t1, t2) ==
    IF spec.err # "none" THEN PErr(spec.err, t1)
    ELSE IF ~FrontIs(t1, "Identifier") THEN PErr("Expected identifier", t2)
    ELSE IF FrontIs(t2, "OpenParen")
    THEN FunctionPrototype(spec, <<Head(t1).s>>, Tail(t2),
                           Drop(t2, IF FrontIs(Tail(t2), "VoidKeyword") THEN 2 ELSE 1),
                           PopFront(Drop(t2, IF FrontIs(Tail(t2), "VoidKeyword")
                                             THEN 2 ELSE 1)))
    ELSE VariableDeclarationOf(spec, <<Head(t1).s>>,
                               IF FrontIs(t2, "Equal")
                               THEN parse_expression(Tail(t2), 0)
                               ELSE POk(NoneNode, t2))

DeclarationOf(spec) == DeclarationAfter(spec, spec.rest, PopFront(spec.rest))

\* parse_declaration
parse_declaration(ts) == DeclarationOf(parse_type_and_storage_class(ts))

\* parse_for_initializer, the declaration branch
ForDeclaration(declaration) ==
    IF declaration.err # "none" THEN declaration
    ELSE IF declaration.n.k # "VariableDeclaration"
    THEN PErr("Expected variable declaration", declaration.rest)
    ELSE declaration

\* parse_for_initializer, the expression branch: after the expression the
\* next token is popped, whatever it is
ForExpression(expression) ==
    IF expression.err # "none" THEN expression
    ELSE POk(expression.n, PopFront(expression.rest))

parse_for_initializer(ts) ==
    IF FrontIs(ts, "Semicolon") THEN POk(NoneNode, Tail(ts))
    ELSE IF matches_start_of_declaration(ts)
    THEN ForDeclaration(parse_declaration(ts))
    ELSE ForExpression(parse_expression(ts, 0))

StatementKeywords ==
    {"IfKeyword", "OpenBrace", "GotoKeyword", "BreakKeyword", "ContinueKeyword",
     "WhileKeyword", "DoKeyword", "SwitchKeyword", "CaseKeyword",
     "DefaultKeyword"}

RECURSIVE parse_statement(_)

\* `return <exp> ;` and `<exp> ;` after the expression
ReturnOf(expression) ==
    IF expression.err # "none" THEN expression
    ELSE IF ~FrontIs(expression.rest, "Semicolon")
    THEN PErr("Expected semicolon", PopFront(expression.rest))
    ELSE POk(Return(expression.n), Tail(expression.rest))

ExpressionStatementOf(expression) ==
    IF expression.err # "none" THEN expression
    ELSE IF ~FrontIs(expression.rest, "Semicolon")
    THEN PErr("Expected semicolon", PopFront(expression.rest))
    ELSE POk(ExpressionStatement(expression.n), Tail(expression.rest))

\* parse_for_statement from the body on
ForOf(initializer, condition, post, body) ==
    IF body.err # "none" THEN body
    ELSE POk([k |-> "For", initializer |-> initializer.n,
              condition |-> condition.n, post |-> post.n,
              body |-> body.n, label |-> <<>>], body.rest)

\* parse_for_statement from the close parenthesis on
ForAfterPost(initializer, condition, post) ==
    IF post.err # "none" THEN post
    ELSE IF ~FrontIs(post.rest, "CloseParen")
    THEN PErr("Expected close parenthesis", PopFront(post.rest))
    ELSE ForOf(initializer, condition, post, parse_statement(Tail(post.rest)))

\* parse_for_statement from the semicolon after the condition on
ForAfterCondition(initializer, condition) ==
    IF condition.err # "none" THEN condition
    ELSE IF ~FrontIs(condition.rest, "Semicolon")
    THEN PErr("Expected semicolon", PopFront(condition.rest))
    ELSE ForAfterPost(initializer, condition,
                      IF FrontIs(Tail(condition.rest), "CloseParen")
                      THEN POk(NoneNode, Tail(condition.rest))
                      ELSE parse_expression(Tail(condition.rest), 0))

\* parse_for_statement from the condition on
ForAfterInitializer(initializer) ==
    IF initializer.err # "none" THEN initializer
    ELSE ForAfterCondition(initializer,
                           IF FrontIs(initializer.rest, "Semicolon")
                           THEN POk(NoneNode, initializer.rest)
                           ELSE parse_expression(initializer.rest, 0))

\* parse_for_statement
parse_for_statement(ts) ==
    IF ~FrontIs(ts, "ForKeyword") THEN PErr("Expected for keyword", PopFront(ts))
    ELSE IF ~FrontIs(PopFront(ts), "OpenParen")
    THEN PErr("Expected open parenthesis", PopFront(PopFront(ts)))
    ELSE ForAfterInitializer(parse_for_initializer(PopFront(PopFront(ts))))

\* parse_statement: the arms of `;`, return, for and the expression statement
parse_statement(ts) ==
    CASE FrontIs(ts, "Semicolon") -> POk([k |-> "Null"], Tail(ts))
      [] FrontIs(ts, "ReturnKeyword") -> ReturnOf(parse_expression(Tail(ts), 0))
      [] FrontIs(ts, "ForKeyword") -> parse_for_statement(ts)
      [] /\ ~FrontIs(ts, "Semicolon")
         /\ ~FrontIs(ts, "ReturnKeyword")
         /\ ~FrontIs(ts, "ForKeyword")
         /\ ~(ts # <<>> /\ Head(ts).t \in StatementKeywords)
         /\ ~(FrontIs(ts, "Identifier") /\ FrontIs(PopFront(ts), "Colon")) ->
           ExpressionStatementOf(parse_expression(ts, 0))

(***************************************************************************)
(* The for statements given to parse_statement:                            *)
(*     for ( <initializer> <separator> <condition> ; <post> ) <body>       *)
(* with every part drawn from a pool that holds what the parser accepts    *)
(* and what it has to reject.                                              *)
(***************************************************************************)

MaxForParts == 3

ForInitializers ==
    << <<>>,
       <<IdentifierToken("i"), Tok("Equal"), ConstantIntToken(<<"0">>)>>,
       <<IdentifierToken("i")>>,
       <<Tok("IntKeyword"), IdentifierToken("i"), Tok("Equal"),
         ConstantIntToken(<<"0">>)>>,
       <<Tok("IntKeyword"), IdentifierToken("f"), Tok("OpenParen"),
         Tok("VoidKeyword"), Tok("CloseParen")>>,
       <<Tok("StaticKeyword"), Tok("ExternKeyword"), Tok("IntKeyword"),
         IdentifierToken("i")>> >>

ForSeparators ==
    << <<Tok("Semicolon")>>, <<Tok("Comma")>>, <<Tok("CloseParen")>>,
       <<Tok("Colon")>>, <<>> >>

ForConditions ==
    << <<>>,
       <<IdentifierToken("i"), Tok("Less"), ConstantIntToken(<<"1">>)>>,
       <<IdentifierToken("i"), Tok("Less")>>,
       <<IdentifierToken("i"), Tok("Comma"), IdentifierToken("j")>> >>

ForPosts ==
    << <<>>,
       <<IdentifierToken("i"), Tok("PlusPlus")>>,
       <<IdentifierToken("i"), Tok("PlusEqual"), ConstantIntToken(<<"1">>)>>,
       <<Tok("PlusPlus")>> >>

ForBodies ==
    << <<Tok("Semicolon")>>,
       <<Tok("ReturnKeyword"), IdentifierToken("i"), Tok("Semicolon")>>,
       <<IdentifierToken("i"), Tok("MinusMinus"), Tok("Semicolon")>>,
       <<Tok("ForKeyword"), Tok("OpenParen"), Tok("Semicolon"), Tok("Semicolon"),
         Tok("CloseParen"), Tok("Semicolon")>>,
       <<IdentifierToken("i")>> >>

\* The first MaxForParts + d entries of a pool
Pool(parts, d) == { parts[i] : i \in 1..Min(Len(parts), MaxForParts + d) }

ForTokens(initializer, separator, condition, post, body) ==
    <<Tok("ForKeyword"), Tok("OpenParen")>> \o initializer \o separator
    \o condition \o <<Tok("Semicolon")>> \o post \o <<Tok("CloseParen")>> \o body

ForInputs ==
    { ForTokens(initializer, separator, condition, post, body) :
        initializer \in Pool(ForInitializers, 3),
        separator \in Pool(ForSeparators, 2),
        condition \in Pool(ForConditions, 0),
        post \in Pool(ForPosts, 0),
        body \in Pool(ForBodies, 0) }

ForStart ==
    /\ parseInput \in ForInputs
    /\ parseTokens = parseInput
    /\ parseResult = [kind |-> "running"]

\* parse_statement(tokens) on a deque that starts with `for`
parse_statement_call ==
    /\ parseResult.kind = "running"
    /\ LET r == parse_statement(parseTokens) IN
       /\ parseTokens' = r.rest
       /\ parseResult' = IF r.err = "none"
                         THEN [kind |-> "Ok", stmt |-> r.n]
                         ELSE [kind |-> "Err", msg |-> r.err]
    /\ UNCHANGED <<parseInput, notParse>>

(***************************************************************************)
(* A run of the TAC of main (compiler/tacky.rs).  The program calls        *)
(* functions it only declares: a call is an event of the run and returns   *)
(* any value.  The programs run hold calls, constants, &&, ||, if, the     *)
(* loops, break, continue and return, so the instructions met are Copy,    *)
(* the jumps, Label, FunctionCall and Return.                              *)
(***************************************************************************)

MaxEvents == 6

MaxLogicalOps == 2

notExec == <<driverVars, lexVars, cgVars, semaVars, tcVars, parseVars, machVars>>

\* What a declared function may return: zero, and a non-zero value other
\* than 1
CallValues == {0, 2}

Callees == <<"a", "b", "c", "d", "e", "f">>

Call(f) == FunctionCall(f, <<>>)

\* The expressions of n operators && and || over the calls k+1 .. k+n+1, in
\* every grouping
RECURSIVE LogicalTrees(_, _)
LogicalTrees(n, k) ==
    IF n = 0 THEN { Call(Callees[k + 1]) }
    ELSE UNION { { Binary(op, l, r) :
                     op \in {"LogicalAnd", "LogicalOr"},
                     l \in LogicalTrees(m, k),
                     r \in LogicalTrees(n - 1 - m, k + m + 1) } :
                 m \in 0..(n - 1) }

\* int a(void); ... int main(void) { <items> }
ExecProgram(items) ==
    [i \in 1..Len(Callees) |->
       FunctionDeclaration(Callees[i], <<>>, NoneNode, "None")]
    \o <<FunctionDeclaration("main", <<>>, Block(items), "None")>>

\* return <e>;  with e of at most MaxLogicalOps operators, or with a constant
\* as left operand
LogicalPrograms ==
    { ExecProgram(<<Return(e)>>) :
        e \in UNION { LogicalTrees(n, 0) : n \in 1..MaxLogicalOps }
              \cup { Binary(op, Constant(c), Call("a")) :
                       op \in {"LogicalAnd", "LogicalOr"}, c \in {0, 2} } }

\* if (k()) continue; if (q()) break; e();   with b() in front
LoopBody ==
    Compound(<<ExpressionStatement(Call("b")),
               If(Call("d"), Continue, NoneNode),
               If(Call("e"), Break, NoneNode),
               ExpressionStatement(Call("f"))>>)

LoopOf(kind, initializer, condition, post, body) ==
    CASE kind = "For" ->
           [k |-> "For", initializer |-> initializer, condition |-> condition,
            post |-> post, body |-> body, label |-> <<>>]
      [] kind = "While" ->
           [k |-> "While", condition |-> condition, body |-> body, label |-> <<>>]
      [] kind = "DoWhile" ->
           [k |-> "DoWhile", body |-> body, condition |-> condition,
            label |-> <<>>]

\* for (a(); c(); a()) <body>   while (c()) <body>   do <body> while (c());
\* for (a(); ; a()) <body>      for (; c(); ) <body>  for (int x = a(); c(); ) <body>
\* each followed by return a();, and a loop within a loop
LoopPrograms ==
    LET bodies == { LoopBody,
                    If(Call("d"), Continue, Break),
                    Compound(<<If(Call("d"), Break, NoneNode),
                               ExpressionStatement(Call("b")),
                               Continue>>),
                    ExpressionStatement(Call("b")) }
        loops ==
            { LoopOf("For", Call("a"), Call("c"), Call("a"), body) : body \in bodies }
            \cup { LoopOf("While", NoneNode, Call("c"), NoneNode, body) :
                     body \in bodies }
            \cup { LoopOf("DoWhile", NoneNode, Call("c"), NoneNode, body) :
                     body \in bodies }
            \cup { LoopOf("For", Call("a"), NoneNode, Call("a"), body) :
                     body \in bodies }
            \cup { LoopOf("For", NoneNode, Call("c"), NoneNode, body) :
                     body \in bodies }
            \cup { LoopOf("For", VariableDeclaration("x", Call("a"), "None"),
                          Call("c"), NoneNode, body) : body \in bodies }
            \cup { LoopOf("While", NoneNode, Call("c"), NoneNode,
                          Compound(<<LoopOf(kind, NoneNode, Call("d"), NoneNode,
                                            If(Call("e"), Break, Continue)),
                                     ExpressionStatement(Call("b"))>>)) :
                     kind \in {"For", "While", "DoWhile"} }
    IN { ExecProgram(<<loop, Return(Call("a"))>>) : loop \in loops }

ExecPrograms == LogicalPrograms \cup LoopPrograms

ExecStart ==
    /\ source \in ExecPrograms
    /\ ast = source
    /\ ppc = "identifier_resolution"
    /\ semaResult = [kind |-> "none"]
    /\ symbolTable = <<>>
    /\ tacky = <<>>
    /\ asmProgram = <<>>
    /\ asmText = <<>>
    /\ run = 1
    /\ firstText = <<>>

\* The instructions of main, the last function definition of the program
MainCode == tacky[Len(tacky)].instructions

\* The Label instruction a jump goes to
LabelIndex(code, label) ==
    CHOOSE i \in DOMAIN code : code[i].k = "Label" /\ code[i].label = label

\* A tacky::Value: a constant, or the variable as last written
ValueOf(value) == IF value.k = "Constant" THEN value.v ELSE execEnv[value.v]

\* The processor is given main once the TAC is generated
exec_begin ==
    /\ ppc = "codegen"
    /\ execResult.kind = "idle"
    /\ execResult' = [kind |-> "running"]
    /\ execPc' = 1
    /\ UNCHANGED <<execEnv, execTrace, notExec>>

\* One instruction of tacky::Instruction
exec_step ==
    /\ execResult.kind = "running"
    /\ LET ins == MainCode[execPc] IN
       CASE ins.k = "Label" ->
              /\ execPc' = execPc + 1
              /\ UNCHANGED <<execEnv, execTrace, execResult>>
         [] ins.k = "Jump" ->
              /\ execPc' = LabelIndex(MainCode, ins.target)
              /\ UNCHANGED <<execEnv, execTrace, execResult>>
         [] ins.k \in {"JumpIfZero", "JumpIfNotZero"} ->
              /\ execPc' = IF (ValueOf(ins.condition) = 0) <=> (ins.k = "JumpIfZero")
                           THEN LabelIndex(MainCode, ins.target)
                           ELSE execPc + 1
              /\ UNCHANGED <<execEnv, execTrace, execResult>>
         [] ins.k = "Copy" ->
              /\ execEnv' = (ins.dst :> ValueOf(ins.src)) @@ execEnv
              /\ execPc' = execPc + 1
              /\ UNCHANGED <<execTrace, execResult>>
         [] ins.k = "FunctionCall" ->
              /\ Len(execTrace) < MaxEvents
              /\ \E v \in CallValues :
                    /\ execTrace' = Append(execTrace, [f |-> ins.function, v |-> v])
                    /\ execEnv' = (ins.dst :> v) @@ execEnv
              /\ execPc' = execPc + 1
              /\ UNCHANGED execResult
         [] ins.k = "Return" ->
              /\ execResult' = [kind |-> "returned", v |-> ValueOf(ins.v)]
              /\ UNCHANGED <<execPc, execEnv, execTrace>>
    /\ UNCHANGED notExec

(***************************************************************************)
(* A call carried out by the generated code (compiler/codegen.rs,          *)
(* compiler/emitter.rs).  The caller copies constants into the variables   *)
(* it passes, calls f and returns what f returns; f returns one of its     *)
(* parameters.  Both functions go through handle_function_definition, and  *)
(* their text is run on a processor with the registers of asm::Reg, %rsp,  *)
(* %rbp and a memory of 4-byte cells: movl moves one cell, pushq writes    *)
(* two.                                                                    *)
(***************************************************************************)

notMach == <<driverVars, lexVars, cgVars, semaVars, tcVars, parseVars, execVars>>

ArgumentPatterns == {"constants", "locals", "mixed", "statics"}

\* Argument i of the call: a constant, a local variable of the caller or
\* the static variable g
CallArgument(pattern, i) ==
    CASE pattern = "constants" -> [k |-> "Constant", v |-> 10 + i]
      [] pattern = "locals" -> TacVar(ParamNames[i])
      [] pattern = "mixed" ->
           IF i % 2 = 1 THEN [k |-> "Constant", v |-> 10 + i]
                        ELSE TacVar(ParamNames[i])
      [] pattern = "statics" ->
           IF i % 3 = 1 THEN TacVar("g")
           ELSE IF i % 3 = 2 THEN [k |-> "Constant", v |-> 10 + i]
           ELSE TacVar(ParamNames[i])

\* x = 20 + i; for every variable x passed as argument i, then t = f(...);
\* return t;
CallerOf(pattern, n) ==
    LET arguments == [i \in 1..n |-> CallArgument(pattern, i)]
        copy(i) == IF arguments[i].k = "Variable"
                   THEN <<[k |-> "Copy", src |-> [k |-> "Constant", v |-> 20 + i],
                           dst |-> arguments[i].v]>>
                   ELSE <<>>
    IN [function |-> "main", parameters |-> <<>>,
        instructions |->
            Flatten([i \in 1..n |-> copy(i)])
            \o <<[k |-> "FunctionCall", function |-> "f", args |-> arguments, dst |-> "t"],
                 [k |-> "Return", v |-> TacVar("t")]>>,
        statics |-> {"g"}]

\* int f(int p1, ..., int pn) { return pk; }, and return 0 for k = 0
CalleeOf(n, returned) ==
    [function |-> "f", parameters |-> SubSeq(ParamNames, 1, n),
     instructions |->
        <<[k |-> "Return",
           v |-> IF returned = 0 THEN [k |-> "Constant", v |-> 0]
                                 ELSE TacVar(ParamNames[returned])]>>,
     statics |-> {}]

CallCases ==
    UNION { { [caller |-> CallerOf(pattern, n), callee |-> CalleeOf(n, returned)] :
                pattern \in ArgumentPatterns, returned \in 0..n } :
            n \in 0..MaxArgs }

CallStart ==
    /\ callCase \in CallCases
    /\ mCode = <<>>
    /\ mPc = 0
    /\ mRegs = <<>>
    /\ mMem = <<>>

\* emit_function_definition: the label of the function, the two
\* instructions of the prologue and the instructions of the function
FunctionText(fd) ==
    <<[k |-> "Entry", identifier |-> fd.function],
      [k |-> "PushRbp"], [k |-> "MovRspRbp"]>>
    \o handle_function_definition(fd, fd.statics)

\* asm::Reg, with %rsp and %rbp
Registers == {"AX", "CX", "DX", "DI", "SI", "R8", "R9", "R10", "R11", "SP", "BP"}

StackTop == 4096

DataAddress == 8192

\* What a register or a memory cell holds before it is written
GarbageValues == {-1, -2}

\* emit_operand: offset(%rbp) and _identifier(%rip)
Address(operand, regs) ==
    IF operand.k = "Stack" THEN regs["BP"] + operand.v ELSE DataAddress

\* The values a read of the 4-byte cell can give
Cell(address, mem) ==
    IF address \in DOMAIN mem THEN {mem[address]} ELSE GarbageValues

Loads(operand, regs, mem) ==
    CASE operand.k = "Imm" -> {operand.v}
      [] operand.k = "Reg" -> {regs[operand.v]}
      [] OTHER -> Cell(Address(operand, regs), mem)

\* movl into the operand
Store(operand, v, regs, mem) ==
    IF operand.k = "Reg"
    THEN [regs |-> [regs EXCEPT ![operand.v] = v], mem |-> mem]
    ELSE [regs |-> regs, mem |-> (Address(operand, regs) :> v) @@ mem]

\* pushq: eight bytes below %rsp, the value in the low cell; the high cell
\* is the sign of an immediate and zero for a register written by movl
Pushed(v, high, regs, mem) ==
    [regs |-> [regs EXCEPT !["SP"] = @ - 8],
     mem |-> (regs["SP"] - 8 :> v) @@ (regs["SP"] - 4 :> high) @@ mem]

\* The label `_identifier:` a call goes to
EntryOf(code, identifier) ==
    CHOOSE i \in DOMAIN code : code[i].k = "Entry" /\ code[i].identifier = identifier

\* The text of caller and callee is assembled and main is entered: the
\* return address 0 is on the stack
call_begin ==
    /\ mPc = 0
    /\ mCode = <<>>
    /\ mCode' = FunctionText(callCase.caller) \o FunctionText(callCase.callee)
    /\ mPc' = 1
    /\ \E g \in GarbageValues :
          mRegs' = [r \in Registers |->
                      IF r = "SP" THEN StackTop ELSE IF r = "BP" THEN 0 ELSE g]
    /\ mMem' = (StackTop :> 0) @@ (StackTop + 4 :> 0)
    /\ UNCHANGED <<callCase, notMach>>

\* One instruction of the text, as emit_instruction writes it
mach_step ==
    /\ mPc >= 1
    /\ mPc <= Len(mCode)
    /\ LET ins == mCode[mPc] IN
       CASE ins.k = "Entry" ->
              /\ mPc' = mPc + 1
              /\ UNCHANGED <<mRegs, mMem>>
         [] ins.k = "PushRbp" ->
              LET after == Pushed(mRegs["BP"], 0, mRegs, mMem) IN
              /\ mRegs' = after.regs
              /\ mMem' = after.mem
              /\ mPc' = mPc + 1
         [] ins.k = "MovRspRbp" ->
              /\ mRegs' = [mRegs EXCEPT !["BP"] = mRegs["SP"]]
              /\ mPc' = mPc + 1
              /\ UNCHANGED mMem
         [] ins.k = "AllocateStack" ->
              /\ mRegs' = [mRegs EXCEPT !["SP"] = @ - ins.n]
              /\ mPc' = mPc + 1
              /\ UNCHANGED mMem
         [] ins.k = "DeallocateStack" ->
              /\ mRegs' = [mRegs EXCEPT !["SP"] = @ + ins.n]
              /\ mPc' = mPc + 1
              /\ UNCHANGED mMem
         [] ins.k = "Mov" ->
              /\ \E v \in Loads(ins.src, mRegs, mMem) :
                    LET after == Store(ins.dst, v, mRegs, mMem) IN
                    /\ mRegs' = after.regs
                    /\ mMem' = after.mem
              /\ mPc' = mPc + 1
         [] ins.k = "Push" ->
              /\ \E v \in Loads(ins.o, mRegs, mMem) :
                    LET high == IF ins.o.k = "Imm" /\ v < 0 THEN -1 ELSE 0
                        after == Pushed(v, high, mRegs, mMem)
                    IN /\ mRegs' = after.regs
                       /\ mMem' = after.mem
              /\ mPc' = mPc + 1
         [] ins.k = "Call" ->
              LET after == Pushed(mPc + 1, 0, mRegs, mMem) IN
              /\ mRegs' = after.regs
              /\ mMem' = after.mem
              /\ mPc' = EntryOf(mCode, ins.f)
         [] ins.k = "Ret" ->
              \E frame \in Cell(mRegs["BP"], mMem),
                 return \in Cell(mRegs["BP"] + 8, mMem) :
                    /\ mRegs' = [mRegs EXCEPT !["BP"] = frame,
                                              !["SP"] = mRegs["BP"] + 16]
                    /\ mPc' = return
                    /\ UNCHANGED mMem
    /\ UNCHANGED <<callCase, mCode, notMach>>

(***************************************************************************)
(* Specifications                                                          *)
(***************************************************************************)

DriverIdle ==
    /\ args = [stage |-> "Full", assembly |-> FALSE, object |-> FALSE]
    /\ os = "macos"
    /\ dpc = "idle"
    /\ files = {}
    /\ ran = <<>>
    /\ analyzeResult = [kind |-> "none", pass |-> "none"]
    /\ exit = "running"

LexIdle ==
    /\ input = <<>>
    /\ rest = <<>>
    /\ tokens = <<>>
    /\ lexResult = [kind |-> "idle"]

CgIdle ==
    /\ tacFn = [parameters |-> <<>>, instructions |-> <<>>, statics |-> {}]
    /\ asmIns = <<>>
    /\ ip = 0
    /\ sp = 0

SemaIdle ==
    /\ source = <<>>
    /\ ast = <<>>
    /\ ppc = "idle"
    /\ semaResult = [kind |-> "none"]
    /\ symbolTable = <<>>
    /\ tacky = <<>>
    /\ asmProgram = <<>>
    /\ asmText = <<>>
    /\ run = 1
    /\ firstText = <<>>

TcIdle ==
    /\ tcProgram = <<>>
    /\ tcHandled = <<>>
    /\ tcSymbols = <<>>
    /\ tcResult = [kind |-> "idle"]

ParseIdle ==
    /\ parseInput = <<>>
    /\ parseTokens = <<>>
    /\ parseResult = [kind |-> "idle"]

ExecIdle ==
    /\ execPc = 0
    /\ execEnv = <<>>
    /\ execTrace = <<>>
    /\ execResult = [kind |-> "idle"]

MachIdle ==
    /\ callCase = <<>>
    /\ mCode = <<>>
    /\ mPc = 0
    /\ mRegs = <<>>
    /\ mMem = <<>>

RuntimeIdle == ExecIdle /\ MachIdle

DriverInit == DriverStart /\ LexIdle /\ CgIdle /\ SemaIdle /\ TcIdle /\ ParseIdle /\ RuntimeIdle

SpecDriver == DriverInit /\ [][DriverNext]_vars

LexInit == LexStart /\ DriverIdle /\ CgIdle /\ SemaIdle /\ TcIdle /\ ParseIdle /\ RuntimeIdle

LexNext ==
    \/ tokenize_step
    \/ tokenize_return

SpecLex == LexInit /\ [][LexNext]_vars

CgInit == CgStart /\ DriverIdle /\ LexIdle /\ SemaIdle /\ TcIdle /\ ParseIdle /\ RuntimeIdle

CgNext ==
    \/ cg_generate
    \/ cg_walk

SpecCodegen == CgInit /\ [][CgNext]_vars

SemaInit == SemaStart /\ DriverIdle /\ LexIdle /\ CgIdle /\ TcIdle /\ ParseIdle /\ RuntimeIdle

SemaNext ==
    \/ identifier_resolution
    \/ label_resolution
    \/ loop_switch_labeling
    \/ switch_case_collection
    \/ type_check
    \/ tackygen
    \/ codegen
    \/ emit
    \/ run_again

SpecSema == SemaInit /\ [][SemaNext]_vars

(***************************************************************************)
(* TypeChecker::handle_program on file-scope declarations, one             *)
(* handle_top_level_declaration per step.                                  *)
(***************************************************************************)

MaxDeclarations == 3

\* [static | extern] int x [= 1 | = 2];
VariableDeclarations ==
    { VariableDeclaration("x", init, sc) :
        init \in {NoneNode, Constant(1), Constant(2)},
        sc \in {"None", "Static", "Extern"} }

\* [static | extern] int f(void) [{ }]
FunctionDeclarations ==
    { FunctionDeclaration("f", <<>>, body, sc) :
        body \in {NoneNode, Block(<<>>)},
        sc \in {"None", "Static", "Extern"} }

\* up to MaxDeclarations declarations of the variable, or of the function
DeclarationSequences ==
    UNION { [1..n -> VariableDeclarations] \cup [1..n -> FunctionDeclarations] :
              n \in 0..MaxDeclarations }

TcStart ==
    /\ tcProgram \in DeclarationSequences
    /\ tcHandled = <<>>
    /\ tcSymbols = <<>>
    /\ tcResult = [kind |-> "running"]

\* handle_top_level_declaration: the context after the declaration
tc_handle_top_level_declaration(declaration, symbols) ==
    IF declaration.k = "VariableDeclaration"
    THEN tc_handle_top_level_variable_declaration(declaration,
             [n |-> <<>>, symbols |-> symbols, err |-> "none"])
    ELSE tc_handle_function_declaration(declaration,
             [n |-> <<>>, symbols |-> symbols, err |-> "none"])

\* declarations.push(self.handle_top_level_declaration(declaration)?)
TcDeclared(r) ==
    IF r.err = "none"
    THEN /\ tcHandled' = Append(tcHandled, r.n)
         /\ tcSymbols' = r.symbols
         /\ UNCHANGED tcResult
    ELSE /\ tcResult' = PassResult(r)
         /\ UNCHANGED <<tcHandled, tcSymbols>>

handle_top_level_declaration ==
    /\ tcResult.kind = "running"
    /\ Len(tcHandled) < Len(tcProgram)
    /\ TcDeclared(tc_handle_top_level_declaration(tcProgram[Len(tcHandled) + 1],
                                                  tcSymbols))
    /\ UNCHANGED <<tcProgram, notTc>>

\* Ok(Program { declarations })
handle_program_return ==
    /\ tcResult.kind = "running"
    /\ Len(tcHandled) = Len(tcProgram)
    /\ tcResult' = [kind |-> "ok", program |-> tcHandled]
    /\ UNCHANGED <<tcProgram, tcHandled, tcSymbols, notTc>>

TcInit ==
    TcStart /\ DriverIdle /\ LexIdle /\ CgIdle /\ SemaIdle /\ ParseIdle /\ RuntimeIdle

TcNext ==
    \/ handle_top_level_declaration
    \/ handle_program_return

SpecTypeCheck == TcInit /\ [][TcNext]_vars

ResolveInit == ResolveStart /\ DriverIdle /\ LexIdle /\ CgIdle /\ TcIdle /\ ParseIdle /\ RuntimeIdle

ResolveNext ==
    \/ identifier_resolution
    \/ identifier_resolution_again

SpecResolve == ResolveInit /\ [][ResolveNext]_vars

SwitchInit == SwitchStart /\ DriverIdle /\ LexIdle /\ CgIdle /\ TcIdle /\ ParseIdle /\ RuntimeIdle

SwitchNext ==
    \/ loop_switch_labeling
    \/ switch_case_collection

SpecSwitch == SwitchInit /\ [][SwitchNext]_vars

LabelInit == LabelStart /\ DriverIdle /\ LexIdle /\ CgIdle /\ TcIdle /\ ParseIdle /\ RuntimeIdle

SpecLabels == LabelInit /\ [][SemaNext]_vars

ExecInit ==
    ExecStart /\ ExecIdle /\ MachIdle
    /\ DriverIdle /\ LexIdle /\ CgIdle /\ TcIdle /\ ParseIdle

ExecNext ==
    \/ identifier_resolution
    \/ label_resolution
    \/ loop_switch_labeling
    \/ switch_case_collection
    \/ type_check
    \/ tackygen
    \/ exec_begin
    \/ exec_step

SpecExec == ExecInit /\ [][ExecNext]_vars

CallInit ==
    CallStart /\ ExecIdle
    /\ DriverIdle /\ LexIdle /\ CgIdle /\ SemaIdle /\ TcIdle /\ ParseIdle

CallNext ==
    \/ call_begin
    \/ mach_step

SpecCall == CallInit /\ [][CallNext]_vars

FixUpInit ==
    FixUpStart /\ DriverIdle /\ LexIdle /\ SemaIdle /\ TcIdle /\ ParseIdle /\ RuntimeIdle

SpecFixUp == FixUpInit /\ [][CgNext]_vars

ParseInit ==
    ParseStart /\ DriverIdle /\ LexIdle /\ CgIdle /\ SemaIdle /\ TcIdle /\ RuntimeIdle

ParseNext == parse_expression_call

SpecParse == ParseInit /\ [][ParseNext]_vars

ForInit ==
    ForStart /\ DriverIdle /\ LexIdle /\ CgIdle /\ SemaIdle /\ TcIdle /\ RuntimeIdle

ForNext == parse_statement_call

SpecFor == ForInit /\ [][ForNext]_vars

(***************************************************************************)
(* Claims about the driver                                                 *)
(***************************************************************************)

RanPasses == [i \in 1..Len(ran) |-> ran[i].pass]

IsPrefix(s, t) == Len(s) <= Len(t) /\ \A i \in 1..Len(s) : s[i] = t[i]

ExternalTools == {"preprocess", "assemble", "assemble_and_link"}

\* The passes of compile that ran, in the order they ran.
RanInCompile == SelectSeq(RanPasses, LAMBDA p : p \notin ExternalTools)

AssemblerFailed ==
    /\ Len(ran) > 0
    /\ ran[Len(ran)].pass \in {"assemble", "assemble_and_link"}
    /\ ran[Len(ran)].outcome = "fail"

\* C3: whenever the driver has terminated (main returned or the process
\* panicked), the preprocessed .i file is gone, and after an assembler or
\* linker failure the .s file is gone too.
C3_IntermediatesRemovedAtExit ==
    exit # "running" =>
        /\ "i" \notin files
        /\ (AssemblerFailed => "s" \notin files)

\* C4: the semantic passes that ran are a prefix of the fixed order; a pass
\* that returned Err or aborted is the last thing that ran; and the Err that
\* analyze returned is the Err of that pass.
SemanticOrder ==
    <<"IdentifierResolver", "LabelResolver", "LoopSwitchLabeler",
      "SwitchCaseCollector", "TypeChecker">>

RanInAnalyze ==
    SelectSeq(RanPasses,
              LAMBDA p : p \in {SemanticOrder[i] : i \in 1..Len(SemanticOrder)})

C4_FirstErrorHalts ==
    /\ IsPrefix(RanInAnalyze, SemanticOrder)
    /\ \A i \in 1..Len(ran) :
         ran[i].outcome # "ok" =>
            /\ i = Len(ran)
            /\ (ran[i].pass \notin ExternalTools => "s" \notin files)
            /\ (ran[i].outcome = "err" /\ ran[i].pass \in
                    {SemanticOrder[j] : j \in 1..Len(SemanticOrder)})
                 => analyzeResult = [kind |-> "err", pass |-> ran[i].pass]
    /\ analyzeResult.kind = "ok" =>
         \A j \in 1..Len(SemanticOrder) :
            \E i \in 1..Len(ran) :
               ran[i].pass = SemanticOrder[j] /\ ran[i].outcome = "ok"
    /\ analyzeResult.kind = "err" =>
         /\ exit = "panic"
         /\ ran[Len(ran)] = [pass |-> analyzeResult.pass, outcome |-> "err"]

\* C4 witness: the third pass returned Err after two passes returned Ok.
C4_Witness ==
    /\ analyzeResult = [kind |-> "err", pass |-> "LoopSwitchLabeler"]
    /\ RanInAnalyze = <<"IdentifierResolver", "LabelResolver", "LoopSwitchLabeler">>
    /\ exit = "panic"

\* C5: with a stage flag, the passes that ran are a prefix of the pipeline
\* cut after the stage's last pass (the whole of it when compile returned),
\* no .s file is written and neither the assembler nor the linker runs.
PipelineOrder ==
    <<"tokenize", "parse", "IdentifierResolver", "LabelResolver",
      "LoopSwitchLabeler", "SwitchCaseCollector", "TypeChecker", "tackygen",
      "codegen", "emit">>

PassesOfStage(stage) ==
    CASE stage = "Lex"      -> SubSeq(PipelineOrder, 1, 1)
      [] stage = "Parse"    -> SubSeq(PipelineOrder, 1, 2)
      [] stage = "Validate" -> SubSeq(PipelineOrder, 1, 7)
      [] stage = "Tacky"    -> SubSeq(PipelineOrder, 1, 8)
      [] stage = "Codegen"  -> SubSeq(PipelineOrder, 1, 9)
      [] OTHER              -> PipelineOrder

C5_StageStops ==
    /\ IsPrefix(RanInCompile, PassesOfStage(args.stage))
    /\ exit = "ok" => RanInCompile = PassesOfStage(args.stage)
    /\ args.stage # "Full" =>
         /\ "s" \notin files
         /\ \A i \in 1..Len(ran) :
              ran[i].pass \notin {"assemble", "assemble_and_link"}
    /\ "s" \in files => args.stage = "Full"

\* C5 witness: a --codegen run that returned from main.
C5_Witness ==
    /\ args.stage = "Codegen"
    /\ exit = "ok"
    /\ RanInCompile = SubSeq(PipelineOrder, 1, 9)

(***************************************************************************)
(* Claims about the lexer                                                  *)
(***************************************************************************)

IsSuffix(s, t) == Len(s) <= Len(t) /\ SubSeq(t, Len(t) - Len(s) + 1, Len(t)) = s

\* C6: tokenize ends in one of exactly two ways: Ok with the whole input
\* consumed, or Err("Could not tokenize: " + the unconsumed rest of the
\* input) carrying no tokens; it never aborts.
C6_TokenizeTotal ==
    lexResult.kind # "running" =>
        \/ /\ lexResult.kind = "Ok"
           /\ rest = <<>>
        \/ /\ lexResult.kind = "Err"
           /\ DOMAIN lexResult = {"kind", "msg"}
           /\ lexResult.msg = ErrPrefix \o rest
           /\ rest # <<>>
           /\ IsSuffix(rest, input)

\* C2: for a function whose body holds a switch statement the pipeline
\* completes without aborting and the TAC dispatches on the cases.  Its first
\* stage: the word switch is lexed as the keyword token the parser builds
\* Statement::Switch from, never as an identifier.
C2_SwitchKeywordLexed ==
    \A i \in DOMAIN tokens :
        tokens[i].s = SwitchWord => tokens[i].t = "Keyword"

(***************************************************************************)
(* Claims checked under SpecCodegen                                        *)
(***************************************************************************)

AtInstruction(kinds) == ip >= 1 /\ ip <= Len(asmIns) /\ asmIns[ip].k \in kinds

\* C7: on the walk through a generated function the bytes subtracted from
\* the stack pointer since the prologue are a multiple of 16 at every Call;
\* once the call sequence is over (after its DeallocateStack, or after the
\* Call when nothing was pushed or padded) the stack pointer is back at the
\* frame the prologue allocated, which is where it stands at every
\* instruction outside a call sequence.
C7_StackAlignedAtCall ==
    /\ AtInstruction({"Call"}) => sp % 16 = 0
    /\ ip >= 2 /\ asmIns[ip - 1].k = "DeallocateStack" => sp = asmIns[1].n
    /\ ip >= 2 /\ asmIns[ip - 1].k = "Call" /\ ~AtInstruction({"DeallocateStack"})
         => sp = asmIns[1].n
    /\ AtInstruction({"Binary", "Cmp", "JmpCC", "Ret"}) => sp = asmIns[1].n
    /\ ip = Len(asmIns) + 1 => sp = asmIns[1].n

\* A call with seven arguments in a function with locals: 8 bytes of padding,
\* one push, and the DeallocateStack of 16 has just been walked.
C7_Witness ==
    /\ ip > 2
    /\ asmIns[ip - 1] = [k |-> "DeallocateStack", n |-> 16]
    /\ asmIns[1].n >= 16
    /\ sp = asmIns[1].n
    /\ \E j \in 2..(ip - 1) : asmIns[j] = [k |-> "AllocateStack", n |-> 8]

(***************************************************************************)
(* Claims checked under SpecSema                                           *)
(***************************************************************************)

\* The declarations of a node in source order, each with its name and kind:
\* "file" at file scope, and in a function "parameter", "variable" (block
\* scope, for-loop, block-scope static), "extern" or "function".
RECURSIVE Declarations(_, _)
Declarations(node, scope) ==
    CASE node.k = "VariableDeclaration" ->
           <<[name |-> node.variable,
              kind |-> IF scope = "file" THEN "file"
                       ELSE IF node.storage_class = "Extern" THEN "extern"
                       ELSE "variable"]>>
      [] node.k = "FunctionDeclaration" ->
           <<[name |-> node.function,
              kind |-> IF scope = "file" THEN "file" ELSE "function"]>>
           \o [i \in 1..Len(node.parameters) |->
                 [name |-> node.parameters[i], kind |-> "parameter"]]
           \o Declarations(node.body, "body")
      [] node.k = "Block" ->
           Flatten([i \in 1..Len(node.items) |-> Declarations(node.items[i], "body")])
      [] node.k = "Compound" -> Declarations(node.block, "body")
      [] node.k = "If" ->
           Declarations(node.then_branch, "body")
           \o Declarations(node.else_branch, "body")
      [] node.k = "Labeled" -> Declarations(node.statement, "body")
      [] node.k \in {"While", "DoWhile"} -> Declarations(node.body, "body")
      [] node.k = "For" ->
           (IF node.initializer.k = "VariableDeclaration"
            THEN Declarations(node.initializer, "body") ELSE <<>>)
           \o Declarations(node.body, "body")
      [] OTHER -> <<>>

ProgramDeclarations(p) ==
    Flatten([i \in 1..Len(p) |-> Declarations(p[i], "file")])

\* Every declaration of one of the kinds carries a name no other declaration
\* of the program carries.
UniqueNames(ds, kinds) ==
    \A i \in 1..Len(ds) :
        ds[i].kind \in kinds =>
            \A j \in 1..Len(ds) : j # i => ds[j].name # ds[i].name

AfterIdentifierResolution == ppc = "label_resolution"

\* C10 (as stated): after identifier resolution succeeds, every identifier
\* declared inside a function body (parameters, block-scope variables,
\* for-loop variables, block-scope static and extern variables) has a name
\* no other declaration of the program carries.
C10_BodyNamesUnique ==
    AfterIdentifierResolution =>
        UniqueNames(ProgramDeclarations(ast), {"parameter", "variable", "extern"})

\* C10 (amended): the same for every parameter and every block-scope,
\* for-loop and block-scope static variable; a block-scope extern variable
\* keeps its source name, the name of the file-scope object it refers to.
C10_FreshNamesUnique ==
    AfterIdentifierResolution =>
        UniqueNames(ProgramDeclarations(ast), {"parameter", "variable"})

\* main(int x) with two more declarations of x in its body, resolved.
C10_Witness ==
    /\ AfterIdentifierResolution
    /\ LET ds == ProgramDeclarations(ast)
           xs == {i \in 1..Len(ds) : /\ ds[i].kind \in {"parameter", "variable"}
                                     /\ ds[i].name[Len(ds[i].name)] = "x"}
       IN Cardinality(xs) >= 3

\* The expression nodes of an AST node, the node itself included
RECURSIVE ExpressionNodes(_)
ExpressionNodes(node) ==
    CASE node.k \in {"Constant", "Variable"} -> {node}
      [] node.k \in {"Unary", "Cast"} -> {node} \cup ExpressionNodes(node.expr)
      [] node.k \in {"Binary", "Assignment"} ->
           {node} \cup ExpressionNodes(node.lhs) \cup ExpressionNodes(node.rhs)
      [] node.k = "Conditional" ->
           {node} \cup ExpressionNodes(node.condition)
                  \cup ExpressionNodes(node.then_expr)
                  \cup ExpressionNodes(node.else_expr)
      [] node.k = "FunctionCall" ->
           {node} \cup UNION { ExpressionNodes(node.arguments[i]) :
                                 i \in 1..Len(node.arguments) }
      [] node.k = "VariableDeclaration" -> ExpressionNodes(node.initializer)
      [] node.k = "FunctionDeclaration" -> ExpressionNodes(node.body)
      [] node.k = "Block" ->
           UNION { ExpressionNodes(node.items[i]) : i \in 1..Len(node.items) }
      [] node.k \in {"Return", "Expression"} -> ExpressionNodes(node.expr)
      [] node.k = "If" ->
           ExpressionNodes(node.condition) \cup ExpressionNodes(node.then_branch)
               \cup ExpressionNodes(node.else_branch)
      [] node.k = "Labeled" -> ExpressionNodes(node.statement)
      [] node.k = "Compound" -> ExpressionNodes(node.block)
      [] node.k \in {"While", "DoWhile"} ->
           ExpressionNodes(node.condition) \cup ExpressionNodes(node.body)
      [] node.k = "For" ->
           ExpressionNodes(node.initializer) \cup ExpressionNodes(node.condition)
               \cup ExpressionNodes(node.post) \cup ExpressionNodes(node.body)
      [] node.k = "Switch" ->
           ExpressionNodes(node.expression) \cup ExpressionNodes(node.body)
               \cup (IF node.cases.k = "None" THEN {}
                     ELSE UNION { ExpressionNodes(node.cases.cases[i].expr) :
                                    i \in 1..Len(node.cases.cases) })
      [] node.k = "Case" ->
           ExpressionNodes(node.expression) \cup ExpressionNodes(node.body)
      [] node.k = "Default" -> ExpressionNodes(node.body)
      [] OTHER -> {}

ProgramExpressions(p) == UNION { ExpressionNodes(p[i]) : i \in 1..Len(p) }

AfterTypeCheck == ppc = "tackygen"

\* C8: after TypeChecker::analyze returns Ok, every expression node of the
\* returned AST has a type, the initializers of file-scope and block-scope
\* static variable declarations included.
C8_EveryExpressionTyped ==
    AfterTypeCheck => \A e \in ProgramExpressions(ast) : e.ty # NoneNode

JumpKinds == {"Jump", "JumpIfZero", "JumpIfNotZero"}

JumpTargets(instructions) ==
    { instructions[i].target :
        i \in { j \in DOMAIN instructions : instructions[j].k \in JumpKinds } }

DefinedLabels(instructions) ==
    { instructions[i].label :
        i \in { j \in DOMAIN instructions : instructions[j].k = "Label" } }

TacFunctionDefinitions ==
    { tacky[i] : i \in { j \in DOMAIN tacky : tacky[j].k = "FunctionDefinition" } }

\* C9: in the TAC of every function generated from a program that semantic
\* analysis accepted, every target of a Jump, JumpIfZero or JumpIfNotZero is
\* defined by a Label instruction of the same function.
C9_JumpTargetsDefined ==
    \A fd \in TacFunctionDefinitions :
        JumpTargets(fd.instructions) \subseteq DefinedLabels(fd.instructions)

\* A generated function that jumps to a break label, to a continue label and
\* to a label of the generator's own (the for loop with `if (x) break; else
\* continue;`), and one that jumps to the label of a goto
C9_Witness ==
    /\ \E fd \in TacFunctionDefinitions :
         \E b, c, t \in JumpTargets(fd.instructions) :
            /\ b[Len(b)] = "break"
            /\ c[Len(c)] = "continue"
            /\ t[1] = TAC_LABEL_PREFIX
    /\ \E fd \in TacFunctionDefinitions :
         \E g \in JumpTargets(fd.instructions) : g[1] = SEMANTIC_LABEL_PREFIX

\* C1: two runs of the pipeline over the same input program produce the same
\* assembler text, whatever the iteration order of the symbol table.
C1_RunsEmitSameText ==
    (run = 2 /\ ppc = "emitted") => asmText = firstText

\* The items of the assembler text once the emitter has run
Emitted == ppc = "emitted"

\* The symbol that Call instructions and Data operands use for an item of
\* the assembler program
ReferredSymbol(item) ==
    prefix_identifier(IF item.k = "StaticVariable" THEN item.variable
                      ELSE item.function)

\* C23: for every function definition and static variable the emitter
\* prints, a .globl line is printed exactly when the item is global, and the
\* symbol it names is the symbol of the item's label, the underscore-prefixed
\* identifier that Call instructions and Data operands refer to.
C23_GloblNamesLabel ==
    Emitted =>
      \A i \in DOMAIN asmText :
         LET text == asmText[i]
         IN /\ (text.global_directive # <<>>) <=> asmProgram[i].global
            /\ text.identifier = ReferredSymbol(asmProgram[i])
            /\ \A j \in DOMAIN text.global_directive :
                  text.global_directive[j].symbol = text.identifier

(***************************************************************************)
(* Claims checked under SpecSwitch                                         *)
(***************************************************************************)

\* The statements of all function bodies of a program, as one block
RECURSIVE BodyItems(_, _)
BodyItems(program, i) ==
    IF i > Len(program) THEN <<>>
    ELSE (IF program[i].k = "FunctionDeclaration" /\ program[i].body.k # "None"
          THEN program[i].body.items ELSE <<>>) \o BodyItems(program, i + 1)

Bodies(program) == Compound(BodyItems(program, 1))

LoopKinds == {"While", "DoWhile", "For"}

\* node holds a break with no loop or switch around it, or a continue with
\* no loop around it
RECURSIVE Unbound(_, _, _)
Unbound(node, in_breakable, in_loop) ==
    CASE node.k = "Break" -> ~in_breakable
      [] node.k = "Continue" -> ~in_loop
      [] node.k \in LoopKinds -> Unbound(node.body, TRUE, TRUE)
      [] node.k = "Switch" -> Unbound(node.body, TRUE, in_loop)
      [] node.k \in {"Case", "Default"} -> Unbound(node.body, in_breakable, in_loop)
      [] node.k = "Labeled" -> Unbound(node.statement, in_breakable, in_loop)
      [] node.k = "If" ->
           \/ Unbound(node.then_branch, in_breakable, in_loop)
           \/ /\ node.else_branch.k # "None"
              /\ Unbound(node.else_branch, in_breakable, in_loop)
      [] node.k = "Compound" ->
           \E i \in DOMAIN node.block.items :
               Unbound(node.block.items[i], in_breakable, in_loop)
      [] OTHER -> FALSE

\* every break of node carries breakable and every continue continuable,
\* which are the labels of the innermost loop or switch and of the
\* innermost loop around it (<<>>: there is none)
RECURSIVE WellBound(_, _, _)
WellBound(node, breakable, continuable) ==
    CASE node.k = "Break" -> node.label # <<>> /\ node.label = breakable
      [] node.k = "Continue" -> node.label # <<>> /\ node.label = continuable
      [] node.k \in LoopKinds ->
           node.label # <<>> /\ WellBound(node.body, node.label, node.label)
      [] node.k = "Switch" ->
           node.label # <<>> /\ WellBound(node.body, node.label, continuable)
      [] node.k \in {"Case", "Default"} -> WellBound(node.body, breakable, continuable)
      [] node.k = "Labeled" -> WellBound(node.statement, breakable, continuable)
      [] node.k = "If" ->
           /\ WellBound(node.then_branch, breakable, continuable)
           /\ \/ node.else_branch.k = "None"
              \/ WellBound(node.else_branch, breakable, continuable)
      [] node.k = "Compound" ->
           \A i \in DOMAIN node.block.items :
               WellBound(node.block.items[i], breakable, continuable)
      [] OTHER -> TRUE

\* The labels of the loops and switches of node, one entry per statement
RECURSIVE TargetLabels(_)
RECURSIVE TargetLabelsOfItems(_, _)
TargetLabels(node) ==
    CASE node.k \in LoopKinds \cup {"Switch"} -> <<node.label>> \o TargetLabels(node.body)
      [] node.k \in {"Case", "Default"} -> TargetLabels(node.body)
      [] node.k = "Labeled" -> TargetLabels(node.statement)
      [] node.k = "If" ->
           TargetLabels(node.then_branch)
               \o (IF node.else_branch.k = "None" THEN <<>>
                   ELSE TargetLabels(node.else_branch))
      [] node.k = "Compound" -> TargetLabelsOfItems(node.block.items, 1)
      [] OTHER -> <<>>

TargetLabelsOfItems(items, i) ==
    IF i > Len(items) THEN <<>>
    ELSE TargetLabels(items[i]) \o TargetLabelsOfItems(items, i + 1)

Distinct(seq) == \A i, j \in DOMAIN seq : i # j => seq[i] # seq[j]

LabelingErrors ==
    {"Break statement outside of loop or switch", "Continue statement outside of loop"}

LabelingFailed ==
    ppc = "done" /\ semaResult.kind = "err" /\ semaResult.msg \in LabelingErrors

\* C11: loop/switch labeling returns an error exactly when the program holds
\* a break with no enclosing loop or switch or a continue with no enclosing
\* loop (a switch does not count for continue); when it succeeds every break
\* carries the label of its innermost enclosing loop or switch and every
\* continue the label of its innermost enclosing loop, through any switches
\* in between, none is left without a label, and the loops and switches
\* carry pairwise different labels.
C11_BreakContinueBound ==
    ppc # "loop_switch_labeling" =>
        IF Unbound(Bodies(source), FALSE, FALSE)
        THEN LabelingFailed
        ELSE /\ ~LabelingFailed
             /\ WellBound(Bodies(ast), <<>>, <<>>)
             /\ Distinct(TargetLabels(Bodies(ast)))

\* labeled: while (x) switch (x) switch (x) continue;
C11_Witness ==
    /\ ppc = "switch_case_collection"
    /\ source[1].body.items =
           <<Wrap("While", Wrap("Switch", Wrap("Switch", Continue)))>>
    /\ ast[1].body.items[1].body.body.body.label = ast[1].body.items[1].label
    /\ ast[1].body.items[1].body.body.label # ast[1].body.items[1].label

\* The case and default labels under node whose nearest enclosing switch is
\* the one node is the body of: a nested switch keeps its own
RECURSIVE OwnLabels(_)
RECURSIVE OwnLabelsOfItems(_, _)
OwnLabels(node) ==
    CASE node.k = "Case" ->
           <<[default |-> FALSE, value |-> node.expression.c]>> \o OwnLabels(node.body)
      [] node.k = "Default" ->
           <<[default |-> TRUE, value |-> 0]>> \o OwnLabels(node.body)
      [] node.k \in LoopKinds -> OwnLabels(node.body)
      [] node.k = "Labeled" -> OwnLabels(node.statement)
      [] node.k = "If" ->
           OwnLabels(node.then_branch)
               \o (IF node.else_branch.k = "None" THEN <<>>
                   ELSE OwnLabels(node.else_branch))
      [] node.k = "Compound" -> OwnLabelsOfItems(node.block.items, 1)
      [] OTHER -> <<>>

OwnLabelsOfItems(items, i) ==
    IF i > Len(items) THEN <<>>
    ELSE OwnLabels(items[i]) \o OwnLabelsOfItems(items, i + 1)

\* The switch statements of node, nested ones included
RECURSIVE Switches(_)
Switches(node) ==
    CASE node.k = "Switch" -> {node} \cup Switches(node.body)
      [] node.k \in LoopKinds \cup {"Case", "Default"} -> Switches(node.body)
      [] node.k = "Labeled" -> Switches(node.statement)
      [] node.k = "If" ->
           Switches(node.then_branch)
               \cup (IF node.else_branch.k = "None" THEN {}
                     ELSE Switches(node.else_branch))
      [] node.k = "Compound" ->
           UNION { Switches(node.block.items[i]) : i \in DOMAIN node.block.items }
      [] OTHER -> {}

\* two defaults, or two cases of the same integer value
Conflicting(labels) ==
    \E i, j \in DOMAIN labels :
        /\ i < j
        /\ labels[i].default = labels[j].default
        /\ labels[i].value = labels[j].value

CollectionErrors ==
    {"Unexpected switch case outside of switch statement",
     "Multiple default cases in switch statement",
     "Duplicate case value in switch statement",
     "Non-constant expression in switch case"}

CollectionFailed ==
    ppc = "done" /\ semaResult.kind = "err" /\ semaResult.msg \in CollectionErrors

SwitchCasesCollected == ppc \in {"type_check", "done"} /\ ~LabelingFailed

\* C12: switch-case collection returns an error exactly when a case or
\* default has no enclosing switch, or some switch is the nearest enclosing
\* switch of two defaults or of two cases of the same integer value, whatever
\* the width of the two constants (1 and 1L); the cases of a nested switch
\* do not count against the outer one.
C12_CollectionErrors ==
    SwitchCasesCollected =>
        (CollectionFailed <=>
            \/ OwnLabels(Bodies(ast)) # <<>>
            \/ \E sw \in Switches(Bodies(ast)) : Conflicting(OwnLabels(sw.body)))

(***************************************************************************)
(* Claims checked under SpecResolve                                        *)
(***************************************************************************)

DeclarationKinds == {"VariableDeclaration", "FunctionDeclaration"}

DeclaredName(d) == IF d.k = "FunctionDeclaration" THEN d.function ELSE d.variable

\* Linkage: every file-scope declaration, every function, every extern
HasLinkage(d, file_scope) ==
    file_scope \/ d.k = "FunctionDeclaration" \/ d.storage_class = "Extern"

\* The C scopes, read off the source program.  scope maps the identifiers
\* declared so far in the scope the items belong to (and only in that
\* scope) to their linkage.  ScopeConflict: some item of items[i..], or
\* something nested in one, declares an identifier that its own scope
\* already holds, other than a declaration with linkage after one with
\* linkage.
RECURSIVE ScopeConflict(_, _, _, _)
RECURSIVE NestedConflict(_)
ScopeConflict(items, i, scope, file_scope) ==
    IF i > Len(items) THEN FALSE
    ELSE IF items[i].k \in DeclarationKinds
    THEN \/ /\ DeclaredName(items[i]) \in DOMAIN scope
            /\ ~(scope[DeclaredName(items[i])] /\ HasLinkage(items[i], file_scope))
         \/ NestedConflict(items[i])
         \/ ScopeConflict(items, i + 1,
                (DeclaredName(items[i]) :> HasLinkage(items[i], file_scope)) @@ scope,
                file_scope)
    ELSE \/ NestedConflict(items[i])
         \/ ScopeConflict(items, i + 1, scope, file_scope)

\* parameters and the outermost block of the body: one scope; a compound
\* statement: a scope; a for header: a scope that holds its one declaration
NestedConflict(node) ==
    CASE node.k = "FunctionDeclaration" ->
           \/ \E i, j \in DOMAIN node.parameters :
                  i < j /\ node.parameters[i] = node.parameters[j]
           \/ /\ node.body.k # "None"
              /\ ScopeConflict(node.body.items, 1,
                     [x \in {node.parameters[i] : i \in DOMAIN node.parameters}
                        |-> FALSE],
                     FALSE)
      [] node.k = "Compound" -> ScopeConflict(node.block.items, 1, <<>>, FALSE)
      [] node.k \in LoopKinds \cup {"Switch", "Case", "Default"} ->
           NestedConflict(node.body)
      [] node.k = "Labeled" -> NestedConflict(node.statement)
      [] node.k = "If" ->
           \/ NestedConflict(node.then_branch)
           \/ node.else_branch.k # "None" /\ NestedConflict(node.else_branch)
      [] OTHER -> FALSE

RedeclarationErrors ==
    {"Duplicate declaration of identifier",
     "Conflicting block-level declarations of identifier"}

ResolvedOnce == run = 1 /\ ppc \in {"label_resolution", "done"}

\* C13: identifier resolution fails on every program in which some scope
\* declares an identifier twice unless both declarations have linkage, and
\* reports a redeclaration on no other program: shadowing a declaration of
\* an enclosing scope is accepted.  The parameters and the outermost block
\* of a function body are one scope; a for header is a scope around the
\* loop body.
C13_SameScopeRedeclaration ==
    ResolvedOnce =>
        IF ScopeConflict(source, 1, <<>>, TRUE)
        THEN ppc = "done" /\ semaResult.kind = "err"
        ELSE ~(ppc = "done" /\ semaResult.kind = "err"
               /\ semaResult.msg \in RedeclarationErrors)

\* accepted: int main(int x) { for (int x = 0; x < 3; ) { int x = 1; } }
\* with a fresh name for each of the three x
C13_Witness ==
    /\ ResolvedOnce
    /\ ppc = "label_resolution"
    /\ Len(source) = 1
    /\ source[1].parameters = <<<<"x">>>>
    /\ Len(source[1].body.items) = 1
    /\ source[1].body.items[1].k = "For"
    /\ source[1].body.items[1].body.k = "Compound"
    /\ Cardinality({ast[1].parameters[1],
                     ast[1].body.items[1].initializer.variable,
                     ast[1].body.items[1].body.block.items[1].variable}) = 3

\* The identifiers of a node in the order of the text: the names declared
\* and the names used
RECURSIVE Occurrences(_)
Occurrences(node) ==
    CASE node.k = "Variable" -> <<node.v>>
      [] node.k \in {"Unary", "Cast"} -> Occurrences(node.expr)
      [] node.k \in {"Binary", "Assignment"} ->
           Occurrences(node.lhs) \o Occurrences(node.rhs)
      [] node.k = "Conditional" ->
           Occurrences(node.condition) \o Occurrences(node.then_expr)
               \o Occurrences(node.else_expr)
      [] node.k = "FunctionCall" ->
           <<node.function>>
           \o Flatten([i \in 1..Len(node.arguments) |->
                         Occurrences(node.arguments[i])])
      [] node.k = "VariableDeclaration" ->
           <<node.variable>> \o Occurrences(node.initializer)
      [] node.k = "FunctionDeclaration" ->
           <<node.function>> \o node.parameters \o Occurrences(node.body)
      [] node.k = "Block" ->
           Flatten([i \in 1..Len(node.items) |-> Occurrences(node.items[i])])
      [] node.k \in {"Return", "Expression"} -> Occurrences(node.expr)
      [] node.k = "If" ->
           Occurrences(node.condition) \o Occurrences(node.then_branch)
               \o Occurrences(node.else_branch)
      [] node.k = "Labeled" -> Occurrences(node.statement)
      [] node.k = "Compound" -> Occurrences(node.block)
      [] node.k \in {"While", "DoWhile"} ->
           Occurrences(node.condition) \o Occurrences(node.body)
      [] node.k = "For" ->
           Occurrences(node.initializer) \o Occurrences(node.condition)
               \o Occurrences(node.post) \o Occurrences(node.body)
      [] OTHER -> <<>>

\* The node with every identifier blanked: the shape of the tree
RECURSIVE Shape(_)
Shape(node) ==
    CASE node.k = "Variable" -> [node EXCEPT !.v = <<>>]
      [] node.k \in {"Unary", "Cast"} -> [node EXCEPT !.expr = Shape(@)]
      [] node.k \in {"Binary", "Assignment"} ->
           [node EXCEPT !.lhs = Shape(@), !.rhs = Shape(@)]
      [] node.k = "Conditional" ->
           [node EXCEPT !.condition = Shape(@), !.then_expr = Shape(@),
                        !.else_expr = Shape(@)]
      [] node.k = "FunctionCall" ->
           [node EXCEPT !.function = <<>>,
                        !.arguments = [i \in 1..Len(@) |-> Shape(@[i])]]
      [] node.k = "VariableDeclaration" ->
           [node EXCEPT !.variable = <<>>, !.initializer = Shape(@)]
      [] node.k = "FunctionDeclaration" ->
           [node EXCEPT !.function = <<>>,
                        !.parameters = [i \in 1..Len(@) |-> <<>>],
                        !.body = Shape(@)]
      [] node.k = "Block" ->
           [node EXCEPT !.items = [i \in 1..Len(@) |-> Shape(@[i])]]
      [] node.k \in {"Return", "Expression"} -> [node EXCEPT !.expr = Shape(@)]
      [] node.k = "If" ->
           [node EXCEPT !.condition = Shape(@), !.then_branch = Shape(@),
                        !.else_branch = Shape(@)]
      [] node.k = "Labeled" -> [node EXCEPT !.statement = Shape(@)]
      [] node.k = "Compound" -> [node EXCEPT !.block = Shape(@)]
      [] node.k \in {"While", "DoWhile"} ->
           [node EXCEPT !.condition = Shape(@), !.body = Shape(@)]
      [] node.k = "For" ->
           [node EXCEPT !.initializer = Shape(@), !.condition = Shape(@),
                        !.post = Shape(@), !.body = Shape(@)]
      [] OTHER -> node

ProgramOccurrences(decls) ==
    Flatten([i \in 1..Len(decls) |-> Occurrences(decls[i])])

ProgramShape(decls) == [i \in 1..Len(decls) |-> Shape(decls[i])]

\* Two occurrences carry one name in o1 exactly when they do in o2
SameNaming(o1, o2) ==
    /\ Len(o1) = Len(o2)
    /\ \A i, j \in 1..Len(o1) : (o1[i] = o1[j]) <=> (o2[i] = o2[j])

\* The pass has run on its own output: source holds the first output, and
\* ast the second when the second run returned Ok
ResolvedTwice == run = 2

\* C19: when identifier resolution has run on the output of an accepted
\* program, the second run succeeded, and its output has the shape of the
\* first output and names two occurrences alike exactly when the first does.
C19_ResolutionIdempotent ==
    ResolvedTwice =>
        /\ ppc = "resolved_again"
        /\ ProgramShape(ast) = ProgramShape(source)
        /\ SameNaming(ProgramOccurrences(source), ProgramOccurrences(ast))

\* The second run has renamed a program with three variables x of its
\* own and a file-scope x
C19_Witness ==
    /\ ResolvedTwice
    /\ ppc = "resolved_again"
    /\ ast # source
    /\ Cardinality({ ProgramOccurrences(ast)[i] :
                       i \in 1..Len(ProgramOccurrences(ast)) }) >= 5

\* Lexical scoping read off two programs of the same shape, `b` before and
\* `a` after the pass.  env gives, for every identifier with a visible
\* declaration, the name that the nearest such declaration carries in `a`;
\* it grows along a block and is dropped at its end.  With named = FALSE only
\* visibility is asked.
RECURSIVE RefsAgree(_, _, _, _)
RECURSIVE BlockAgrees(_, _, _, _, _)
RefsAgree(b, a, env, named) ==
    CASE b.k = "Variable" -> b.v \in DOMAIN env /\ (named => a.v = env[b.v])
      [] b.k = "Unary" -> RefsAgree(b.expr, a.expr, env, named)
      [] b.k \in {"Binary", "Assignment"} ->
           RefsAgree(b.lhs, a.lhs, env, named) /\ RefsAgree(b.rhs, a.rhs, env, named)
      [] b.k = "Conditional" ->
           /\ RefsAgree(b.condition, a.condition, env, named)
           /\ RefsAgree(b.then_expr, a.then_expr, env, named)
           /\ RefsAgree(b.else_expr, a.else_expr, env, named)
      [] b.k = "FunctionCall" ->
           \A i \in DOMAIN b.arguments :
              RefsAgree(b.arguments[i], a.arguments[i], env, named)
      [] b.k \in {"Return", "Expression"} -> RefsAgree(b.expr, a.expr, env, named)
      [] b.k = "If" ->
           /\ RefsAgree(b.condition, a.condition, env, named)
           /\ RefsAgree(b.then_branch, a.then_branch, env, named)
           /\ b.else_branch.k # "None" =>
                 RefsAgree(b.else_branch, a.else_branch, env, named)
      [] b.k = "Labeled" -> RefsAgree(b.statement, a.statement, env, named)
      [] b.k = "Compound" ->
           BlockAgrees(b.block.items, a.block.items, 1, env, named)
      [] b.k \in {"While", "DoWhile"} ->
           /\ RefsAgree(b.condition, a.condition, env, named)
           /\ RefsAgree(b.body, a.body, env, named)
      [] b.k = "For" ->
           LET header == IF b.initializer.k = "VariableDeclaration"
                         THEN (b.initializer.variable :> a.initializer.variable)
                              @@ env
                         ELSE env
           IN /\ CASE b.initializer.k = "VariableDeclaration" ->
                        b.initializer.initializer.k # "None" =>
                           RefsAgree(b.initializer.initializer,
                                     a.initializer.initializer, header, named)
                   [] b.initializer.k = "None" -> TRUE
                   [] OTHER -> RefsAgree(b.initializer, a.initializer, env, named)
              /\ b.condition.k # "None" =>
                    RefsAgree(b.condition, a.condition, header, named)
              /\ b.post.k # "None" => RefsAgree(b.post, a.post, header, named)
              /\ RefsAgree(b.body, a.body, header, named)
      [] OTHER -> TRUE

BlockAgrees(bs, as, i, env, named) ==
    IF i > Len(bs) THEN TRUE
    ELSE CASE bs[i].k = "VariableDeclaration" ->
                LET declared == (bs[i].variable :> as[i].variable) @@ env
                IN /\ (bs[i].initializer.k # "None"
                       /\ bs[i].storage_class # "Extern") =>
                         RefsAgree(bs[i].initializer, as[i].initializer,
                                   declared, named)
                   /\ BlockAgrees(bs, as, i + 1, declared, named)
           [] bs[i].k = "FunctionDeclaration" ->
                BlockAgrees(bs, as, i + 1,
                            (bs[i].function :> as[i].function) @@ env, named)
           [] OTHER ->
                /\ RefsAgree(bs[i], as[i], env, named)
                /\ BlockAgrees(bs, as, i + 1, env, named)

\* The names the parameters of a function carry after the pass
ParameterNames(b, a) ==
    [x \in { b.parameters[i] : i \in DOMAIN b.parameters } |->
       a.parameters[CHOOSE i \in DOMAIN b.parameters :
                       /\ b.parameters[i] = x
                       /\ \A j \in DOMAIN b.parameters :
                            b.parameters[j] = x => j <= i]]

\* The file scope: every declaration is visible from its place on, a function
\* body sees the parameters of its function over the file scope
RECURSIVE ProgramAgrees(_, _, _, _, _)
ProgramAgrees(bs, as, i, env, named) ==
    IF i > Len(bs) THEN TRUE
    ELSE IF bs[i].k = "VariableDeclaration"
    THEN ProgramAgrees(bs, as, i + 1, (bs[i].variable :> as[i].variable) @@ env,
                       named)
    ELSE LET file == (bs[i].function :> as[i].function) @@ env
         IN /\ bs[i].body.k # "None" =>
                  BlockAgrees(bs[i].body.items, as[i].body.items, 1,
                              ParameterNames(bs[i], as[i]) @@ file, named)
            /\ ProgramAgrees(bs, as, i + 1, file, named)

\* Every reference of the program has a visible declaration
AllVisible(program) == ProgramAgrees(program, program, 1, <<>>, FALSE)

\* What identifier resolution has to make of program `before`
ReferencesResolved(before, after, result) ==
    /\ ~AllVisible(before) => result.kind = "err"
    /\ result.kind = "none" =>
          /\ Len(after) = Len(before)
          /\ ProgramAgrees(before, after, 1, <<>>, TRUE)

TcDecided == tcResult.kind \notin {"idle", "running"}

TcFailedWith(msg) == tcResult.kind = "err" /\ tcResult.msg = msg

OfVariable == tcProgram # <<>> /\ tcProgram[1].k = "VariableDeclaration"

Initialized == {i \in DOMAIN tcProgram : tcProgram[i].initializer.k # "None"}

\* The initial value of the final entry of x
FinalInitial == tcSymbols[<<"x">>].attrs.initial

\* What the declarations of x decide whatever their order: one initializer,
\* two or more, none
InitialByCount ==
    CASE Cardinality(Initialized) = 1 ->
           /\ tcResult.kind = "ok"
           /\ \A i \in Initialized :
                  FinalInitial = Initial([k |-> "Int", v |-> tcProgram[i].initializer.c])
      [] Cardinality(Initialized) > 1 ->
           TcFailedWith("Conflicting file scope variable definition")
      [] OTHER ->
           /\ tcResult.kind = "ok"
           /\ FinalInitial =
                  IF \E i \in DOMAIN tcProgram : tcProgram[i].storage_class # "Extern"
                  THEN Tentative ELSE NoneNode

\* A step leaves an Initial entry of x as it is
InitialKept ==
    (<<"x">> \in DOMAIN tcSymbols /\ tcSymbols[<<"x">>].attrs.initial.k = "Initial")
        => tcSymbols'[<<"x">>].attrs.initial = tcSymbols[<<"x">>].attrs.initial

OfFunction == tcProgram # <<>> /\ tcProgram[1].k = "FunctionDeclaration"

WithBody == {i \in DOMAIN tcProgram : tcProgram[i].body.k # "None"}

StaticAfterNonStatic ==
    /\ tcProgram[1].storage_class # "Static"
    /\ \E i \in DOMAIN tcProgram : i > 1 /\ tcProgram[i].storage_class = "Static"

FunctionEntry == tcSymbols[<<"f">>].attrs

\* The entry of f after the declarations handled so far
FunctionFlags ==
    <<"f">> \in DOMAIN tcSymbols =>
        /\ FunctionEntry.global = (tcProgram[1].storage_class # "Static")
        /\ FunctionEntry.defined = (\E i \in WithBody : i <= Len(tcHandled))

\* The sequences the type checker rejects, and with which error
FunctionErrors ==
    /\ tcResult.kind = "ok" <=> (Cardinality(WithBody) < 2 /\ ~StaticAfterNonStatic)
    /\ (Cardinality(WithBody) > 1 /\ ~StaticAfterNonStatic)
          => TcFailedWith("Redefinition of function")
    /\ (Cardinality(WithBody) < 2 /\ StaticAfterNonStatic)
          => TcFailedWith("Static function declaration after non-static declaration")

\* A step keeps the global flag of f, and its defined flag once it is true
FlagsKept ==
    <<"f">> \in DOMAIN tcSymbols =>
        /\ tcSymbols'[<<"f">>].attrs.global = FunctionEntry.global
        /\ FunctionEntry.defined => tcSymbols'[<<"f">>].attrs.defined

\* C15: over the declarations of one function the symbol's global flag is
\* that of the first declaration and no step changes it (a non-static
\* declaration after a static one keeps global = false, a static one after
\* a non-static one is an error), defined is true exactly from the first
\* declaration with a body on and never goes back to false, and a second
\* declaration with a body is a redefinition error.
C15_FunctionFlagsSticky ==
    /\ [](OfFunction => FunctionFlags)
    /\ [](TcDecided /\ OfFunction => FunctionErrors)
    /\ [][OfFunction => FlagsKept]_vars

\* static int f(void); int f(void) { } extern int f(void);  accepted, with
\* global = false and defined = true
C15_Witness ==
    /\ tcResult.kind = "ok"
    /\ OfFunction
    /\ Len(tcProgram) = 3
    /\ tcProgram[1].storage_class = "Static"
    /\ tcProgram[2].storage_class = "None"
    /\ tcProgram[3].storage_class = "Extern"
    /\ WithBody = {2}
    /\ FunctionEntry = FunctionAttrs(TRUE, FALSE)

(***************************************************************************)
(* Claims checked under SpecParse                                          *)
(***************************************************************************)

ParseReturned == parseResult.kind \in {"Ok", "Err"}

ParsedAs(e) == parseResult = [kind |-> "Ok", expr |-> e]

\* The level of an operator in the table of the parser's grammar
TableLevel(op) ==
    CASE op \in {"Asterisk", "Slash", "Percent"} -> 12
      [] op \in {"Plus", "Minus"} -> 11
      [] op \in {"LessLess", "GreaterGreater"} -> 10
      [] op \in {"Less", "LessEqual", "Greater", "GreaterEqual"} -> 9
      [] op \in {"EqualEqual", "ExclamationEqual"} -> 8
      [] op = "Ampersand" -> 7
      [] op = "Caret" -> 6
      [] op = "Pipe" -> 5
      [] op = "AmpersandAmpersand" -> 4
      [] op = "PipePipe" -> 3
      [] op = "Question" -> 2
      [] op \in AssignmentTokens -> 1

BinaryOps == TableOps \ (AssignmentTokens \cup {"Question"})

\* l op r, with x between ? and : for the conditional operator
Applied(op, l, r) ==
    IF op \in AssignmentTokens
    THEN AssignmentOp(parse_assignment_operator(op), l, r)
    ELSE IF op = "Question"
    THEN Conditional(l, Variable("x"), r)
    ELSE Binary(parse_binary_operator(op), l, r)

\* (a op1 b) op2 c
GroupedLeft(op1, op2) ==
    Applied(op2, Applied(op1, Variable("a"), Variable("b")), Variable("c"))

\* a op1 (b op2 c)
GroupedRight(op1, op2) ==
    Applied(op1, Variable("a"), Applied(op2, Variable("b"), Variable("c")))

BindsLeft(op1, op2) ==
    \/ TableLevel(op1) > TableLevel(op2)
    \/ /\ TableLevel(op1) = TableLevel(op2)
       /\ op1 \in BinaryOps
       /\ op2 \in BinaryOps

BindsRight(op1, op2) ==
    \/ TableLevel(op2) > TableLevel(op1)
    \/ op1 \in AssignmentTokens /\ op2 \in AssignmentTokens
    \/ op1 = "Question" /\ op2 = "Question"

\* C16: for any two operators op1, op2 of the precedence table, once
\* parse_expression has returned on `a op1 b op2 c` the result is
\* (a op1 b) op2 c when op1 has the higher level or both have the same level
\* and are left-associative binary operators, and a op1 (b op2 c) when op2 has
\* the higher level or both are assignment operators or both are the
\* conditional operator.
C16_PrecedenceGrouping ==
    ParseReturned =>
        \A op1 \in TableOps :
            StartsWith(parseInput, Chain(<<op1>>)) =>
                \A op2 \in TableOps :
                    parseInput = Chain(<<op1, op2>>) =>
                        /\ BindsLeft(op1, op2) =>
                               ParsedAs(GroupedLeft(op1, op2))
                        /\ BindsRight(op1, op2) =>
                               ParsedAs(GroupedRight(op1, op2))

\* a - b - c has been parsed as (a - b) - c
C16_Witness ==
    /\ parseInput = Chain(<<"Minus", "Minus">>)
    /\ parseTokens = <<>>
    /\ ParsedAs(Binary("Subtract",
                       Binary("Subtract", Variable("a"), Variable("b")),
                       Variable("c")))

\* C17: for every binary operator op, once parse_expression has returned on
\* `(long) a op b` the result is Binary(op, Cast(Long, a), b): the cast takes
\* the single factor that follows the parenthesized type specifier.
C17_CastBindsFactor ==
    \A op \in BinaryOps :
        (ParseReturned /\ parseInput = CastPrefix("LongKeyword") \o Chain(<<op>>))
            => ParsedAs(Binary(parse_binary_operator(op),
                               Cast(TypeLong, Variable("a")), Variable("b")))

(***************************************************************************)
(* Claims checked under SpecLabels                                         *)
(***************************************************************************)

\* The labels of the statements of one kind ("Labeled" or "Goto") in a
\* statement, in the order of the text
RECURSIVE LabelsIn(_, _)
RECURSIVE LabelsInItems(_, _, _)
LabelsIn(node, kind) ==
    CASE node.k = "Labeled" ->
           (IF kind = "Labeled" THEN <<node.label>> ELSE <<>>)
           \o LabelsIn(node.statement, kind)
      [] node.k = "Goto" -> IF kind = "Goto" THEN <<node.label>> ELSE <<>>
      [] node.k = "If" ->
           LabelsIn(node.then_branch, kind)
           \o (IF node.else_branch.k = "None" THEN <<>>
               ELSE LabelsIn(node.else_branch, kind))
      [] node.k = "Compound" -> LabelsInItems(node.block.items, 1, kind)
      [] node.k \in {"While", "DoWhile", "For"} -> LabelsIn(node.body, kind)
      [] OTHER -> <<>>

LabelsInItems(items, i, kind) ==
    IF i > Len(items) THEN <<>>
    ELSE LabelsIn(items[i], kind) \o LabelsInItems(items, i + 1, kind)

\* The labels of one kind in the body of declaration d of a program
FunctionLabels(program, d, kind) ==
    IF program[d].k = "FunctionDeclaration" /\ program[d].body.k # "None"
    THEN LabelsInItems(program[d].body.items, 1, kind)
    ELSE <<>>

\* Some function declares a label twice
DeclaredTwice(program) ==
    \E d \in DOMAIN program :
       LET labels == FunctionLabels(program, d, "Labeled")
       IN \E i, j \in DOMAIN labels : i # j /\ labels[i] = labels[j]

\* Some function has a goto to a label it does not declare
GotoUndeclared(program) ==
    \E d \in DOMAIN program :
       LET labels == FunctionLabels(program, d, "Labeled")
           gotos == FunctionLabels(program, d, "Goto")
       IN \E j \in DOMAIN gotos : \A i \in DOMAIN labels : labels[i] # gotos[j]

\* The places of the labels of a program: declaration and position
LabelPlaces(program) ==
    UNION { { <<d, i>> : i \in DOMAIN FunctionLabels(program, d, "Labeled") } :
            d \in DOMAIN program }

\* What label resolution has to make of program `before`
LabelsResolved(before, after, result) ==
    IF DeclaredTwice(before) \/ GotoUndeclared(before)
    THEN /\ result.kind = "err"
         /\ result.msg \in {"Label already declared", "Label not declared"}
    ELSE /\ result.kind = "none"
         /\ Len(after) = Len(before)
         /\ \A d \in DOMAIN before :
              LET old == FunctionLabels(before, d, "Labeled")
                  new == FunctionLabels(after, d, "Labeled")
                  oldGotos == FunctionLabels(before, d, "Goto")
                  newGotos == FunctionLabels(after, d, "Goto")
              IN /\ Len(new) = Len(old)
                 /\ Len(newGotos) = Len(oldGotos)
                 /\ \A j \in DOMAIN oldGotos :
                      \E i \in DOMAIN old :
                         old[i] = oldGotos[j] /\ newGotos[j] = new[i]
         /\ \A p1, p2 \in LabelPlaces(after) :
              p1 # p2 =>
                 FunctionLabels(after, p1[1], "Labeled")[p1[2]]
                 # FunctionLabels(after, p2[1], "Labeled")[p2[2]]

\* C29: label scope is one function.  A goto gets the new name of the label
\* of its name declared anywhere in the same function, before or after it and
\* at any depth; a name used in two functions is accepted and gets two new
\* names; a label declared twice in a function and a goto whose label is
\* declared only in another function are errors.
C29_LabelScopeIsFunction ==
    [][ppc = "label_resolution" => LabelsResolved(ast, ast', semaResult')]_vars

\* Both functions declare L, main below a while, f before its goto, and the
\* two labels are resolved to different names
C29_Witness ==
    /\ ppc = "loop_switch_labeling"
    /\ FunctionLabels(source, 1, "Labeled") = << <<"L">> >>
    /\ FunctionLabels(source, 1, "Goto") = << <<"L">> >>
    /\ source[1].body.items[1].k = "Labeled"
    /\ source[2].body.items[1].k = "Goto"
    /\ source[2].body.items[2].k = "While"
    /\ FunctionLabels(ast, 1, "Goto") = FunctionLabels(ast, 1, "Labeled")
    /\ FunctionLabels(ast, 2, "Goto") = FunctionLabels(ast, 2, "Labeled")
    /\ FunctionLabels(ast, 1, "Labeled") # FunctionLabels(ast, 2, "Labeled")

\* The Label instructions of the TAC of a program: item and position
TacLabelPlaces ==
    UNION { { <<i, j>> : j \in { n \in DOMAIN tacky[i].instructions :
                                  tacky[i].instructions[n].k = "Label" } } :
            i \in { n \in DOMAIN tacky : tacky[n].k = "FunctionDefinition" } }

TacLabelAt(place) == tacky[place[1]].instructions[place[2]].label

\* C25: in the TAC of a whole program no label is defined by more than one
\* Label instruction, across all functions: the counter-generated labels, the
\* break and continue labels of loops and the renamed goto labels are pairwise
\* distinct, also when two functions use the same source label or have loops
\* of the same kind.
C25_TacLabelsDistinct ==
    \A p1, p2 \in TacLabelPlaces : p1 # p2 => TacLabelAt(p1) # TacLabelAt(p2)

\* Both functions have the label L and a while loop, and the TAC of each
\* defines its L, its continue label and its break label
C25_Witness ==
    /\ Len(tacky) = 2
    /\ FunctionLabels(source, 1, "Labeled") = << <<"L">> >>
    /\ FunctionLabels(source, 2, "Labeled") = << <<"L">> >>
    /\ \A i \in 1..2 :
         /\ Len(source[i].body.items) = 2
         /\ source[i].body.items[2].k = "While"
    /\ \A i \in 1..2 :
         /\ tacky[i].k = "FunctionDefinition"
         /\ \E l, c, b \in DefinedLabels(tacky[i].instructions) :
              /\ l[1] = SEMANTIC_LABEL_PREFIX /\ l[Len(l)] = "L"
              /\ c[Len(c)] = "continue"
              /\ b[Len(b)] = "break"

(***************************************************************************)
(* Claims checked under SpecExec                                           *)
(*                                                                         *)
(* The meaning of the source program, read against the calls of a run: an  *)
(* outcome [st, i, v] says how the construct ended ("normal", "break",     *)
(* "continue", "return"), the index of the next call of the run and the    *)
(* value.  st is "more" when the run has not yet made a call the program   *)
(* makes next, and "bad" when the next call of the run is another one.     *)
(***************************************************************************)

Outcome(st, i, v) == [st |-> st, i |-> i, v |-> v]

Truth(v) == IF v # 0 THEN 1 ELSE 0

RECURSIVE Eval(_, _)
Eval(e, i) ==
    CASE e.k = "Constant" -> Outcome("normal", i, e.c)
      [] e.k = "FunctionCall" ->
           IF i > Len(execTrace) THEN Outcome("more", i, 0)
           ELSE IF execTrace[i].f # e.function THEN Outcome("bad", i, 0)
           ELSE Outcome("normal", i + 1, execTrace[i].v)
      [] e.k = "Binary" /\ e.op \in {"LogicalAnd", "LogicalOr"} ->
           LET l == Eval(e.lhs, i)
               decided == IF e.op = "LogicalAnd" THEN l.v = 0 ELSE l.v # 0
           IN IF l.st # "normal" THEN l
              ELSE IF decided THEN Outcome("normal", l.i, Truth(l.v))
              ELSE LET r == Eval(e.rhs, l.i)
                   IN IF r.st # "normal" THEN r
                      ELSE Outcome("normal", r.i, Truth(r.v))

\* An outcome that ends the statements around it
Ends(o) == o.st \in {"more", "bad", "return"}

RECURSIVE Run(_, _, _)
RECURSIVE RunItems(_, _, _, _)
RECURSIVE RunLoop(_, _, _, _)

\* The loop from its test on (first = FALSE), or from the body of a do-while
\* on (first = TRUE); fuel bounds the rounds by the calls of the run
RunLoop(s, i, fuel, first) ==
    IF fuel = 0 THEN Outcome("more", i, 0)
    ELSE
    LET c == IF first \/ s.condition.k = "None" THEN Outcome("normal", i, 1)
             ELSE Eval(s.condition, i)
    IN IF c.st # "normal" THEN c
       ELSE IF c.v = 0 THEN Outcome("normal", c.i, 0)
       ELSE
       LET b == Run(s.body, c.i, fuel)
       IN IF Ends(b) THEN b
          ELSE IF b.st = "break" THEN Outcome("normal", b.i, 0)
          ELSE
          LET p == IF s.k = "For" /\ s.post.k # "None" THEN Eval(s.post, b.i)
                   ELSE Outcome("normal", b.i, 0)
          IN IF p.st # "normal" THEN p
             ELSE RunLoop(s, p.i, fuel - 1, FALSE)

Run(s, i, fuel) ==
    CASE s.k = "Return" ->
           LET e == Eval(s.expr, i)
           IN IF e.st # "normal" THEN e ELSE Outcome("return", e.i, e.v)
      [] s.k = "Expression" -> Eval(s.expr, i)
      [] s.k = "If" ->
           LET c == Eval(s.condition, i)
           IN IF c.st # "normal" THEN c
              ELSE IF c.v # 0 THEN Run(s.then_branch, c.i, fuel)
              ELSE IF s.else_branch.k = "None" THEN Outcome("normal", c.i, 0)
              ELSE Run(s.else_branch, c.i, fuel)
      [] s.k = "Compound" -> RunItems(s.block.items, 1, i, fuel)
      [] s.k \in {"Break", "Continue"} ->
           Outcome(IF s.k = "Break" THEN "break" ELSE "continue", i, 0)
      [] s.k = "While" -> RunLoop(s, i, fuel, FALSE)
      [] s.k = "DoWhile" -> RunLoop(s, i, fuel, TRUE)
      [] s.k = "For" ->
           LET init == CASE s.initializer.k = "None" -> Outcome("normal", i, 0)
                         [] s.initializer.k = "VariableDeclaration" ->
                              Eval(s.initializer.initializer, i)
                         [] OTHER -> Eval(s.initializer, i)
           IN IF init.st # "normal" THEN init
              ELSE RunLoop(s, init.i, fuel, FALSE)

RunItems(items, n, i, fuel) ==
    IF n > Len(items) THEN Outcome("normal", i, 0)
    ELSE LET o == Run(items[n], i, fuel)
         IN IF o.st # "normal" THEN o ELSE RunItems(items, n + 1, o.i, fuel)

\* The run so far is a run of the source: its calls are the calls the
\* program makes, in order; once main has returned no call is missing and the
\* value is the program's
Follows(o) ==
    /\ o.st \notin {"bad", "break", "continue"}
    /\ o.st \in {"return", "normal"} => o.i = Len(execTrace) + 1
    /\ execResult.kind = "returned" =>
          /\ o.st \in {"return", "normal"}
          /\ execResult.v = o.v

MainItems == source[Len(source)].body.items

\* C27: in the TAC of lhs && rhs no instruction of rhs runs when lhs is zero
\* and the result is 0; in that of lhs || rhs none runs when lhs is non-zero
\* and the result is 1; in the other cases rhs is evaluated once, after lhs,
\* and the result is 1 or 0 as rhs is non-zero or zero (&&: 1 when non-zero).
C27_ShortCircuit ==
    (source \in LogicalPrograms /\ execResult.kind # "idle") =>
        Follows(Run(MainItems[1], 1, 1))

\* a() && b() returned 0 after the call of a alone, which returned 0
C27_Witness ==
    /\ source \in LogicalPrograms
    /\ execResult = [kind |-> "returned", v |-> 0]
    /\ MainItems[1].expr = Binary("LogicalAnd", Call("a"), Call("b"))
    /\ execTrace = <<[f |-> <<"a">>, v |-> 0]>>

\* C26: in the TAC of the loops a continue leads to the post expression and
\* then the test (for) or to the test (while, do-while), the body of a
\* do-while runs once before the first test, a break leads to what follows
\* the loop, a for loop runs its initializer once, and a for loop without
\* condition never leaves through the test.
C26_LoopControlFlow ==
    (source \in LoopPrograms /\ execResult.kind # "idle") =>
        Follows(RunItems(MainItems, 1, 1, MaxEvents + 1))

\* for (a(); c(); a()) { b(); if (d()) continue; ... }: after the continue the
\* post expression and the test were run
C26_Witness ==
    /\ source \in LoopPrograms
    /\ MainItems[1] = LoopOf("For", Call("a"), Call("c"), Call("a"), LoopBody)
    /\ Len(execTrace) = 6
    /\ [i \in 1..6 |-> execTrace[i].f] =
          << <<"a">>, <<"c">>, <<"b">>, <<"d">>, <<"a">>, <<"c">> >>
    /\ execTrace[4].v = 2

(***************************************************************************)
(* Claims checked under SpecCall                                           *)
(***************************************************************************)

\* The variables of the caller after its copies, read off its TAC
RECURSIVE TacEnv(_, _, _)
TacEnv(instructions, i, env) ==
    IF instructions[i].k # "Copy" THEN env
    ELSE TacEnv(instructions, i + 1,
                (instructions[i].dst :> instructions[i].src.v) @@ env)

\* The FunctionCall of the caller
TheCall ==
    LET instructions == callCase.caller.instructions IN
    instructions[CHOOSE i \in DOMAIN instructions :
                     instructions[i].k = "FunctionCall"]

\* The value the caller supplies as argument i (counted from 1)
ArgumentValue(i) ==
    LET value == TheCall.args[i] IN
    IF value.k = "Constant" THEN value.v
    ELSE TacEnv(callCase.caller.instructions, 1, <<>>)[value.v]

\* The parameter the callee returns, counted from 1, and 0 for none
ReturnedParameter ==
    LET value == callCase.callee.instructions[1].v
        parameters == callCase.callee.parameters
    IN IF value.k = "Constant" THEN 0
       ELSE CHOOSE i \in DOMAIN parameters : parameters[i] = value.v

\* The callee has run its entry code and `return pk;` up to the ret
AtCalleeReturn ==
    /\ mPc >= 1
    /\ mPc <= Len(mCode)
    /\ mCode[mPc].k = "Ret"
    /\ mPc > EntryOf(mCode, "f")

\* C22: caller and callee agree on argument passing.  For a call with n
\* arguments to a function with n parameters, once the entry code of the
\* callee has run, the stack slot of parameter i (the i-th pseudo-register
\* of the callee, at -4*i(%rbp)) holds the value the caller supplied as
\* argument i, for every i, and the callee that returns parameter k returns
\* the value of argument k; this for n up to MaxArgs, so with arguments in
\* registers and on the stack, with the padding (n odd) and without.
C22_ArgumentsAgree ==
    AtCalleeReturn =>
        /\ \A i \in 1..Len(callCase.callee.parameters) :
              Cell(mRegs["BP"] - 4 * i, mMem) = {ArgumentValue(i)}
        /\ ReturnedParameter # 0 => mRegs["AX"] = ArgumentValue(ReturnedParameter)

\* Seven arguments, the seventh a variable passed on the stack above the
\* padding, and the callee returns its seventh parameter
C22_Witness ==
    /\ AtCalleeReturn
    /\ Len(TheCall.args) = 7
    /\ TheCall.args[7].k = "Variable"
    /\ ReturnedParameter = 7
    /\ mRegs["AX"] = ArgumentValue(7)
    /\ \E i \in DOMAIN mCode :
          mCode[i].k = "AllocateStack" /\ mCode[i].n = 8

(***************************************************************************)
(* Claims checked under SpecFor                                            *)
(***************************************************************************)

\* parse returned Ok with a for statement whose initializer is an expression
AcceptedExpressionInitializer ==
    /\ parseResult.kind = "Ok"
    /\ parseResult.stmt.k = "For"
    /\ parseResult.stmt.initializer.k \notin {"None", "VariableDeclaration"}

\* What follows the initializer expression in the input, after `for (`
AfterInitializerExpression == parse_expression(Drop(parseInput, 2), 0).rest

\* C30: parse accepts a for statement whose initializer is an expression only
\* when a `;` token follows that expression at once; with any other token
\* there (a comma, say) parse returns an error.
C30_ForInitializerSemicolon ==
    AcceptedExpressionInitializer => FrontIs(AfterInitializerExpression, "Semicolon")

(***************************************************************************)
(* Claims about the punctuators of the lexer                               *)
(***************************************************************************)

\* The punctuators that are a prefix of s
PunctuatorPrefixes(s) == { p \in PunctuatorSet : StartsWith(s, p) }

LongestPunctuator(s) ==
    CHOOSE p \in PunctuatorPrefixes(s) :
        \A q \in PunctuatorPrefixes(s) : Len(q) <= Len(p)

\* C18: whenever tokenize is at a position where the remaining input starts
\* with a punctuator, its next step appends the longest punctuator of the
\* array that is a prefix of the remaining input, and goes on after that
\* punctuator and the whitespace that follows it.
C18_LongestPunctuator ==
    [][(lexResult.kind = "running" /\ PunctuatorPrefixes(rest) # {}) =>
           /\ tokens' = Append(tokens, [t |-> "Punctuator",
                                        s |-> LongestPunctuator(rest)])
           /\ rest' = trim_start(Drop(rest, Len(LongestPunctuator(rest))))]_vars

\* <<= has been lexed as one token, or --42 as -- and 42
C18_Witness ==
    \/ /\ input = <<"<", "<", "=">>
       /\ tokens = <<[t |-> "Punctuator", s |-> <<"<", "<", "=">>]>>
    \/ /\ input = <<"-", "-", "4", "2">>
       /\ tokens = <<[t |-> "Punctuator", s |-> <<"-", "-">>],
                     [t |-> "Constant", s |-> <<"4", "2">>]>>

(***************************************************************************)
(* Claims about the fix-up pass of codegen                                 *)
(***************************************************************************)

\* A multiply whose destination is a stack slot or the Data operand of a
\* static variable
ImulToMemory(ins) ==
    ins.k = "Binary" /\ ins.op = "Mult" /\ ins.dst.k \in {"Stack", "Data"}

\* C20: the instructions codegen returns, which have gone through the fix-up
\* pass, hold no multiply whose destination is a memory operand, be it a
\* stack slot or the Data operand of a static variable.
C20_NoImulToMemory ==
    \A i \in DOMAIN asmIns : ~ImulToMemory(asmIns[i])

(***************************************************************************)
(* Claims checked under SpecFixUp                                          *)
(***************************************************************************)

Generated == ip >= 1

\* The instructions as fix_up_instructions got them
BeforeFixUp ==
    replace_pseudo_registers(selected_instructions(tacFn), tacFn.statics).instructions

TwoOperand(ins) ==
    \/ ins.k \in {"Mov", "Cmp"}
    \/ ins.k = "Binary" /\ ins.op \in {"Add", "Sub", "And", "Or", "Xor"}

InMemory(o) == o.k \in {"Stack", "Data"}

\* The places of the Cmp instructions of a list, in order
CmpPlaces(instructions) ==
    LET at == { i \in 1..Len(instructions) : instructions[i].k = "Cmp" }
    IN [n \in 1..Cardinality(at) |->
          CHOOSE i \in at : Cardinality({ j \in at : j <= i }) = n]

\* The value operand o of instruction i stands for: what the Mov just before
\* it loaded, when o is a scratch register so loaded
Compared(instructions, i, o) ==
    IF /\ o \in {Operand("Reg", "R10"), Operand("Reg", "R11")}
       /\ i > 1
       /\ instructions[i - 1].k = "Mov"
       /\ instructions[i - 1].dst = o
    THEN instructions[i - 1].src
    ELSE o

CmpKept ==
    LET before == CmpPlaces(BeforeFixUp)
        after == CmpPlaces(asmIns)
    IN /\ Len(before) = Len(after)
       /\ \A n \in 1..Len(before) :
            /\ Compared(asmIns, after[n], asmIns[after[n]].src)
                 = BeforeFixUp[before[n]].src
            /\ Compared(asmIns, after[n], asmIns[after[n]].dst)
                 = BeforeFixUp[before[n]].dst

\* C21: in the instructions codegen returns no Mov, Cmp, Add, Sub, And, Or
\* or Xor has both operands in memory, no Idiv has an immediate operand, no
\* Cmp has an immediate destination, and every Cmp compares the operands the
\* Cmp it comes from compared, source as source and destination as
\* destination.
C21_FixedUp ==
    Generated =>
        /\ \A i \in DOMAIN asmIns :
             /\ TwoOperand(asmIns[i]) =>
                    ~(InMemory(asmIns[i].src) /\ InMemory(asmIns[i].dst))
             /\ asmIns[i].k = "Idiv" => asmIns[i].o.k # "Imm"
             /\ asmIns[i].k = "Cmp" => asmIns[i].dst.k # "Imm"
        /\ CmpKept

\* g < a with g static and a on the stack: the Cmp of two memory operands
\* went through R10
C21_Witness ==
    /\ Generated
    /\ tacFn.statics = {"g"}
    /\ \E i \in DOMAIN asmIns :
         /\ i > 1
         /\ asmIns[i].k = "Cmp"
         /\ asmIns[i].src = Operand("Reg", "R10")
         /\ asmIns[i].dst = Operand("Data", "g")
         /\ asmIns[i - 1] = Mov(Operand("Stack", -4), Operand("Reg", "R10"))

\* The operands of an instruction, and of a list of instructions, in order
OperandsOf(ins) ==
    CASE ins.k \in {"Mov", "Binary", "Cmp"} -> <<ins.src, ins.dst>>
      [] ins.k \in {"Unary", "SetCC"} -> <<ins.dst>>
      [] ins.k \in {"Idiv", "Sal", "Sar", "Push"} -> <<ins.o>>
      [] OTHER -> <<>>

AllOperands(instructions) ==
    Flatten([i \in 1..Len(instructions) |-> OperandsOf(instructions[i])])

\* The operands before and after replace_pseudo_registers, place by place
PseudoOperands == AllOperands(selected_instructions(tacFn))

ReplacedOperands == AllOperands(BeforeFixUp)

\* The places of `before` that hold pseudo registers that are not static
SlotPlaces(before) ==
    { i \in 1..Len(before) :
        before[i].k = "Pseudo" /\ before[i].v \notin tacFn.statics }

\* 4 bytes per distinct pseudo register on the stack, rounded up to 16
FrameOfSlots(before) ==
    16 * ((4 * Cardinality({ before[i].v : i \in SlotPlaces(before) }) + 15)
              \div 16)

\* C24: in the instructions codegen returns no operand is a Pseudo; a pseudo
\* register named as a Static symbol has become Data(name); two other pseudo
\* registers have the same Stack offset exactly when they have the same name;
\* and every offset o given to one lies in -S..-4, S being the size of the
\* AllocateStack at the head: 4 bytes per distinct pseudo register rounded up
\* to a multiple of 16.
C24_PseudoReplaced ==
    Generated =>
        LET before == PseudoOperands
            after == ReplacedOperands
            final == AllOperands(asmIns)
            slots == SlotPlaces(before)
        IN
        /\ \A i \in 1..Len(final) : final[i].k # "Pseudo"
        /\ Len(after) = Len(before)
        /\ \A i \in 1..Len(before) :
             /\ after[i].k # "Pseudo"
             /\ (before[i].k = "Pseudo" /\ before[i].v \in tacFn.statics)
                  => after[i] = Operand("Data", before[i].v)
        /\ asmIns[1] = [k |-> "AllocateStack", n |-> FrameOfSlots(before)]
        /\ \A i \in slots :
             /\ after[i].k = "Stack"
             /\ after[i].v <= -4
             /\ after[i].v >= 0 - asmIns[1].n
             /\ \A j \in slots :
                  (after[i].v = after[j].v) <=> (before[i].v = before[j].v)

\* Seven parameters and a, all on the stack in a frame of 32 bytes, and g in
\* the data section
C24_Witness ==
    /\ Generated
    /\ asmIns[1] = [k |-> "AllocateStack", n |-> 32]
    /\ \E i \in SlotPlaces(PseudoOperands) :
         ReplacedOperands[i] = Operand("Stack", -32)
    /\ \E i \in 1..Len(ReplacedOperands) :
         ReplacedOperands[i] = Operand("Data", "g")

====
